---- MODULE Spec2Model ----
(***************************************************************************)
(* A model of the diet-member scraper: the profile enrichment scheduler    *)
(* (HouseOfRepresentativesScraper.scrapeMultipleProfiles / scrapeProfile / *)
(* scrapeHouseOfRepresentativesWithProfiles), the cache gate (cache.ts),   *)
(* and the electoral descriptor classifier (parseElectionInfo).            *)
(*                                                                         *)
(* Text is modelled as a sequence of one-character strings.  Characters    *)
(* outside ASCII are written by their code point: "U5317" is U+5317.       *)
(***************************************************************************)
EXTENDS Integers, Sequences, FiniteSets, TLC

VARIABLES
    \* ---- scraper object and the enrichment run ----
    browser,          \* this.browser: "null", "open", or the name of a browser
    ownsBrowser,      \* this.ownsBrowser
    members,          \* the member objects handed to the enrichment (heap)
    listResult,       \* what scrapeAllPages returned (the base list), or <<>>
    wpPc,             \* scrapeHouseOfRepresentativesWithProfiles: position
    returned,         \* the member list as returned by ...WithProfiles
    smpPc,            \* scrapeMultipleProfiles: position
    maxConcurrent,    \* normalized batch size
    delay,            \* normalized delay (ms)
    mwp,              \* membersWithProfiles: indices into members
    loopI,            \* the batch loop's i
    tasks,            \* per member: the fetch task's state
    pages,            \* per member: the page the task opened
    gotos,            \* per member: number of page.goto calls
    completedCount,
    successCount,
    delayWaits,       \* number of setTimeout(delay) waits started
    waitedMs,         \* total time spent in those waits
    wpOpts,           \* ...WithProfiles: its options while the list scrape runs
    \* ---- cache gate and main ----
    now,              \* Date.now()
    file,             \* the cache file out/<filename>
    gate,             \* shouldUseCachedData: position, options, locals, result
    mainPc,           \* main(): position
    written,          \* the result main() last serialized to the file
    \* ---- classifier ----
    rawInfo,          \* parseElectionInfo's argument
    parsed,           \* its result, or the not-yet marker
    \* ---- list scrape ----
    lsPc,             \* where scrapeAllPages / extractMembersFromPage stands
    pageIndex,        \* scrapeAllPages: pages scraped so far
    pageRows,         \* the table rows of the page last handed to the extractor
    rawMemberData,    \* extractMembersFromPage's result for pageRows
    rawAgain,         \* its result when run once more on the same rows
    processedMembers, \* scrapeAllPages: the members collected so far
    \* ---- browser lifecycle ----
    life              \* the lifecycle call in progress and what the scraper
                      \* launched, closed and let go so far

schedVars == <<browser, ownsBrowser, members, listResult, wpPc, returned, smpPc,
               maxConcurrent, delay, mwp, loopI, tasks, pages, gotos,
               completedCount, successCount, delayWaits, waitedMs, wpOpts>>
cacheVars == <<now, file, gate, mainPc, written>>
classVars == <<rawInfo, parsed>>
listVars == <<lsPc, pageIndex, pageRows, rawMemberData, rawAgain, processedMembers>>
lifeVars == <<life>>
vars == <<schedVars, cacheVars, classVars, listVars, lifeVars>>

(***************************************************************************)
(* Bounds of the model.                                                    *)
(***************************************************************************)
MaxMembers == 5      \* longest member list handed to the enrichment
MaxOddUrls == 1      \* members of one list whose URL is absent or not a plain https URL

(***************************************************************************)
(* Text helpers.                                                           *)
(***************************************************************************)
Min(a, b) == IF a < b THEN a ELSE b
Max(a, b) == IF a > b THEN a ELSE b

Digits == {"0", "1", "2", "3", "4", "5", "6", "7", "8", "9"}
LowerLetters == {"a", "b", "c", "d", "e", "f", "g", "h", "i", "j", "k", "l", "m",
                 "n", "o", "p", "q", "r", "s", "t", "u", "v", "w", "x", "y", "z"}
UpperLetters == {"A", "B", "C", "D", "E", "F", "G", "H", "I", "J", "K", "L", "M",
                 "N", "O", "P", "Q", "R", "S", "T", "U", "V", "W", "X", "Y", "Z"}

\* String.prototype.toLowerCase on one ASCII character
ToLower(ch) ==
    CASE ch = "A" -> "a" [] ch = "B" -> "b" [] ch = "C" -> "c" [] ch = "D" -> "d"
      [] ch = "E" -> "e" [] ch = "F" -> "f" [] ch = "G" -> "g" [] ch = "H" -> "h"
      [] ch = "I" -> "i" [] ch = "J" -> "j" [] ch = "K" -> "k" [] ch = "L" -> "l"
      [] ch = "M" -> "m" [] ch = "N" -> "n" [] ch = "O" -> "o" [] ch = "P" -> "p"
      [] ch = "Q" -> "q" [] ch = "R" -> "r" [] ch = "S" -> "s" [] ch = "T" -> "t"
      [] ch = "U" -> "u" [] ch = "V" -> "v" [] ch = "W" -> "w" [] ch = "X" -> "x"
      [] ch = "Y" -> "y" [] ch = "Z" -> "z" [] OTHER -> ch

LowerText(s) == [k \in 1..Len(s) |-> ToLower(s[k])]

\* String.prototype.startsWith
StartsWith(s, p) == Len(s) >= Len(p) /\ SubSeq(s, 1, Len(p)) = p

\* String.prototype.slice(from) with 0-based from
SliceFrom(s, from) == SubSeq(s, from + 1, Len(s))

\* index (1-based) of the first occurrence of ch in s, 0 when there is none
IndexOf(s, ch) ==
    IF \E k \in 1..Len(s) : s[k] = ch
    THEN CHOOSE k \in 1..Len(s) : s[k] = ch /\ \A j \in 1..(k - 1) : s[j] # ch
    ELSE 0

\* /^\d+$/.test(s)
AllDigits(s) == Len(s) >= 1 /\ \A k \in 1..Len(s) : s[k] \in Digits

(***************************************************************************)
(* new URL(profileUrl).protocol, as scrapeProfile uses it: the scheme is   *)
(* an ASCII letter followed by letters, digits, "+", "-" or ".", ended by  *)
(* ":", and is lower-cased; a special scheme (http, https, ftp, ws, wss)   *)
(* needs a non-empty host after its slashes; anything else makes the       *)
(* constructor throw (there is no base URL).                               *)
(***************************************************************************)
InvalidUrl == <<"!", "i", "n", "v", "a", "l", "i", "d">>
HttpProtocol == <<"h", "t", "t", "p", ":">>
HttpsProtocol == <<"h", "t", "t", "p", "s", ":">>
SpecialSchemes == { <<"h", "t", "t", "p">>, <<"h", "t", "t", "p", "s">>,
                    <<"f", "t", "p">>, <<"w", "s">>, <<"w", "s", "s">> }

\* the text without its leading "/" and "\" characters
RECURSIVE StripSlashes(_)
StripSlashes(s) ==
    IF Len(s) > 0 /\ s[1] \in {"/", "\\"} THEN StripSlashes(Tail(s)) ELSE s

UrlProtocol(url) ==
    LET colon == IndexOf(url, ":")
        scheme == LowerText(SubSeq(url, 1, colon - 1))
        rest == SliceFrom(url, colon)
        schemeOk == /\ colon >= 2
                    /\ scheme[1] \in LowerLetters
                    /\ \A k \in 1..Len(scheme) :
                          scheme[k] \in LowerLetters \cup Digits \cup {"+", "-", "."}
    IN  IF ~schemeOk THEN InvalidUrl
        ELSE IF scheme \in SpecialSchemes /\ StripSlashes(rest) = <<>> THEN InvalidUrl
        ELSE scheme \o <<":">>

\* scrapeProfile's admission test: the try block around new URL(...) and
\* ['http:', 'https:'].includes(url.protocol)
IsAdmissibleAnyScheme(url) == UrlProtocol(url) # InvalidUrl
IsAdmissible(url) == UrlProtocol(url) \in {HttpProtocol, HttpsProtocol}

\* /^https?:\/\//i.test(url): what buildAbsoluteUrl keeps as it is
IsHttpAbsolute(url) ==
    LET l == LowerText(url)
    IN  \/ StartsWith(l, HttpProtocol \o <<"/", "/">>)
        \/ StartsWith(l, HttpsProtocol \o <<"/", "/">>)

(***************************************************************************)
(* Values.                                                                 *)
(***************************************************************************)
Undefined == [t |-> "undefined"]
Null == [t |-> "null"]
NaN == [t |-> "nan"]
MaxSafeInteger == [t |-> "maxSafeInteger"]      \* Number.MAX_SAFE_INTEGER
Num(tenths) == [t |-> "num", tenths |-> tenths] \* a finite number, in tenths
Whole(n) == Num(10 * n)

\* Math.max(lo, Math.floor(Number(x) || fallback)) of an option already
\* defaulted: NaN and 0 are falsy and give the fallback
NormalizeOption(x, lo, fallback) ==
    LET n == IF x.t = "num" /\ x.tenths # 0 THEN x.tenths \div 10 ELSE fallback
    IN  Max(lo, n)

\* destructuring default: `{ opt = dflt } = options`
WithDefault(x, dflt) == IF x = Undefined THEN dflt ELSE x

\* the loop as it was before the option was normalized: 0 stays 0
NormalizeConcurrencyFloorOnly(x) == NormalizeOption(x, 0, 0)

NormalizeConcurrency(x) == NormalizeOption(x, 1, 1)
NormalizeDelay(x) == NormalizeOption(x, 0, 0)

(***************************************************************************)
(* Inputs of the enrichment.                                               *)
(***************************************************************************)
DigitChar(k) == CASE k = 0 -> "0" [] k = 1 -> "1" [] k = 2 -> "2" [] k = 3 -> "3"
                  [] k = 4 -> "4" [] k = 5 -> "5" [] k = 6 -> "6" [] k = 7 -> "7"
                  [] k = 8 -> "8" [] OTHER -> "9"

PlainUrl(k) == <<"h", "t", "t", "p", "s", ":", "/", "/", "a", "/", DigitChar(k % 10)>>
NoUrl == <<>>
FtpUrl == <<"f", "t", "p", ":", "/", "/", "a">>
RelativeUrl == <<"a", "/", "b">>
EmptyHostUrl == <<"h", "t", "t", "p", "s", ":", "/", "/">>
OddUrls == {NoUrl, FtpUrl, RelativeUrl, EmptyHostUrl}

Member(k, url) ==
    [name |-> <<"m", DigitChar(k % 10)>>, party |-> "party",
     profileUrl |-> url, profile |-> Undefined]

\* member lists a caller may hand to scrapeMultipleProfiles
MemberListsOfLen(n) ==
    LET Plain == <<"plain">>
        choice == { f \in [1..n -> {Plain} \cup OddUrls] :
                      Cardinality({k \in 1..n : f[k] # Plain}) <= MaxOddUrls }
    IN  { [k \in 1..n |-> Member(k, IF f[k] = Plain THEN PlainUrl(k) ELSE f[k])] :
            f \in choice }
MemberLists == UNION { MemberListsOfLen(n) : n \in 0..MaxMembers }

\* member lists scrapeAllPages can return: never empty, and a profileUrl is
\* absent or came out of buildAbsoluteUrl as an http(s) URL
ScrapedLists ==
    { l \in MemberLists :
        /\ Len(l) >= 1
        /\ \A k \in 1..Len(l) :
              l[k].profileUrl = NoUrl \/ IsHttpAbsolute(l[k].profileUrl) }

RawConcurrency == {Undefined, NaN, Whole(0), Whole(1), Whole(2), Num(25), Whole(-1)}
RawDelay == {NaN, Whole(0), Whole(500), Whole(-1)}
RawMaxProfiles == {Undefined, MaxSafeInteger, Whole(0), Whole(2), Whole(-1)}

\* what a profile page can hold, as far as extractProfileFromPage's result goes
PageKinds == {"headingAndProse", "broken"}

(***************************************************************************)
(* extractProfileFromPage: the probes fill the profile object; the body    *)
(* text is always stored as careerHistory and biography, so the object     *)
(* has keys whenever the page can be read; a page that cannot be read      *)
(* throws inside the try block and gives null.  A profile is the set of    *)
(* its keys and the set of those keys whose value is not empty.            *)
(***************************************************************************)
Profile(keys, populated) == [t |-> "object", keys |-> keys, populated |-> populated]

ExtractProfileFromPage(kind) ==
    IF kind = "broken" THEN Null
    ELSE LET heading == IF kind = "headingAndProse" THEN {"fullName", "furigana"} ELSE {}
             prose == IF kind \in {"prose", "headingAndProse"}
                      THEN {"electionDistrict", "partyAffiliation", "education"}
                      ELSE {}
             body == IF kind = "empty" THEN {} ELSE {"careerHistory", "biography"}
             keys == heading \cup prose \cup {"careerHistory", "biography"}
         IN  IF Cardinality(keys) > 0 THEN Profile(keys, heading \cup prose \cup body)
             ELSE Null

\* JavaScript truthiness of a profile value (null, undefined or an object)
Truthy(v) == v # Null /\ v # Undefined

(***************************************************************************)
(* scrapeMultipleProfiles: helpers.                                        *)
(***************************************************************************)
\* members.filter((m) => m.profileUrl), as indices into the list
WithProfileUrlUnfiltered(list) == [k \in 1..Len(list) |-> k]
WithProfileUrl(list) ==
    SelectSeq([k \in 1..Len(list) |-> k], LAMBDA k : list[k].profileUrl # NoUrl)

\* the members of membersWithProfiles.slice(i, i + maxConcurrent)
BatchOneMore(list, i, c) == { list[j] : j \in (i + 1)..Min(i + c + 1, Len(list)) }
Batch(list, i, c) == { list[j] : j \in (i + 1)..Min(i + c, Len(list)) }

\* `i + maxConcurrent < membersWithProfiles.length && delay > 0`
DelayNeededAfterLast(i, c, n, d) == i + c <= n /\ d > 0
DelayNeeded(i, c, n, d) == i + c < n /\ d > 0

\* Array.prototype.slice(0, end) of a list of length len: the number kept
SliceEnd(len, end) ==
    IF end.t # "num" THEN 0
    ELSE LET e == IF end.tenths >= 0 THEN end.tenths \div 10
                  ELSE -((-end.tenths) \div 10)
         IN  IF e < 0 THEN Max(len + e, 0) ELSE Min(e, len)

IdleTask == [st |-> "idle", result |-> Undefined]

\* the synchronous start of one task: the arrow function of batch.map calls
\* scrapeProfile, which returns null at once for an absent browser or URL or
\* an inadmissible URL, and otherwise calls newPage() and suspends
StartedTask(m, br) ==
    IF m.profileUrl = NoUrl \/ br = "null" \/ ~IsAdmissible(m.profileUrl)
    THEN [st |-> "settled", result |-> Null]
    ELSE [st |-> "opening", result |-> Undefined]

\* batch.map(async ...): every task of the batch is started
Launched(tk, mems, list, i, c, br) ==
    [k \in DOMAIN tk |->
        IF k \in Batch(list, i, c) THEN StartedTask(mems[k], br) ELSE tk[k]]

Running == {"opening", "navigating", "extracting", "closing"}
InFlight == {k \in DOMAIN tasks : tasks[k].st \in Running}

(***************************************************************************)
(* The batch loop from index i on: either the next batch is launched and   *)
(* the function suspends in `await Promise.all(promises)`, or the loop is  *)
(* over, the summary is logged and the function returns; when it was       *)
(* called by scrapeHouseOfRepresentativesWithProfiles (wpNow =             *)
(* "enriching") that caller returns its result in the same turn.           *)
(***************************************************************************)
EnterLoop(i, list, c, mems, tk, cc, br, wpNow) ==
    IF i < Len(list)
    THEN /\ smpPc' = "awaitAll"
         /\ loopI' = i
         /\ tasks' = Launched(tk, mems, list, i, c, br)
         /\ completedCount' = cc +
                Cardinality({k \in Batch(list, i, c) :
                                StartedTask(mems[k], br).st = "settled"})
         /\ wpPc' = wpNow
         /\ returned' = returned
    ELSE /\ smpPc' = "done"
         /\ loopI' = i
         /\ tasks' = tk
         /\ completedCount' = cc
         /\ wpPc' = IF wpNow = "enriching" THEN "returned" ELSE wpNow
         /\ returned' = IF wpNow = "enriching" THEN mems ELSE returned

RejectedUncaught(k) ==
    /\ tasks' = [tasks EXCEPT ![k].st = "rejected"]
    /\ IF smpPc = "awaitAll"
       THEN /\ smpPc' = "threwTask"
            /\ wpPc' = IF wpPc = "enriching" THEN "threw" ELSE wpPc
            /\ returned' = returned
       ELSE UNCHANGED <<smpPc, wpPc, returned>>

\* a task's promise rejects: Promise.all rejects, scrapeMultipleProfiles
\* throws out of its await; ...WithProfiles catches, logs and returns result
Rejected(k) ==
    /\ tasks' = [tasks EXCEPT ![k].st = "rejected"]
    /\ IF smpPc = "awaitAll"
       THEN /\ smpPc' = "threwTask"
            /\ wpPc' = IF wpPc = "enriching" THEN "returned" ELSE wpPc
            /\ returned' = IF wpPc = "enriching" THEN members ELSE returned
       ELSE UNCHANGED <<smpPc, wpPc, returned>>

NoOpts == [includeProfiles |-> TRUE, maxConcurrentProfiles |-> Undefined,
           profileDelay |-> Undefined, maxProfiles |-> Undefined]

(***************************************************************************)
(* JavaScript values held by a scrape result, and their JSON form.         *)
(***************************************************************************)
Str(v) == [t |-> "string", v |-> v]
Obj(f) == [t |-> "object", f |-> f]
Arr(items) == [t |-> "array", items |-> items]

\* JSON.stringify followed by JSON.parse: a key whose value is undefined is
\* not written, an undefined array element is written as null
RECURSIVE JsonOf(_)
JsonOf(v) ==
    CASE v.t = "object" ->
            Obj([k \in {x \in DOMAIN v.f : v.f[x] # Undefined} |-> JsonOf(v.f[k])])
      [] v.t = "array" ->
            Arr([k \in 1..Len(v.items) |->
                    IF v.items[k] = Undefined THEN Null ELSE JsonOf(v.items[k])])
      [] OTHER -> v

\* the text JSON.stringify(result, null, 2) puts in the file, identified by
\* the JSON value it denotes
JsonText(v) == [kind |-> "json", value |-> JsonOf(v)]
GarbageText == [kind |-> "garbage", value |-> Null]      \* not JSON
UnreadableText == [kind |-> "unreadable", value |-> Null] \* readFileSync throws

(***************************************************************************)
(* cache.ts                                                                *)
(***************************************************************************)
HourMs == 3600000
DefaultMaxAgeHours == 24

\* `fileAge < maxAgeMs` with maxAgeMs = maxAgeHours * 60 * 60 * 1000; a
\* comparison with NaN is false
IsFreshInclusive(fileAge, maxAgeHours) ==
    maxAgeHours.t = "num" /\ fileAge <= (maxAgeHours.tenths * HourMs) \div 10
IsFresh(fileAge, maxAgeHours) ==
    maxAgeHours.t = "num" /\ fileAge < (maxAgeHours.tenths * HourMs) \div 10

\* `if (forceRefresh) return { useCache: false, cachedData: null }`
ForceRefreshIgnored(forceRefresh) == FALSE
ForceRefreshShortCircuits(forceRefresh) == forceRefresh

HasKey(v, k) == v.t = "object" /\ k \in DOMAIN v.f

\* loadCachedData's validation of the parsed data
IsValidEntryNumericTimestamp(data) ==
    /\ data.t = "object"
    /\ HasKey(data, "members") /\ data.f["members"].t = "array"
    /\ HasKey(data, "scrapedAt") /\ data.f["scrapedAt"].t = "num"
    /\ HasKey(data, "source") /\ data.f["source"].t = "string"
IsValidEntry(data) ==
    /\ data.t = "object"
    /\ HasKey(data, "members") /\ data.f["members"].t = "array"
    /\ HasKey(data, "scrapedAt") /\ data.f["scrapedAt"].t = "string"
    /\ HasKey(data, "source") /\ data.f["source"].t = "string"

\* loadCachedData once existsSync has answered true: readFileSync,
\* JSON.parse and the validation, every error caught; null or the data
LoadCachedData(f) ==
    IF ~f.exists \/ f.content.kind # "json" THEN Null
    ELSE IF IsValidEntry(f.content.value) THEN f.content.value
    ELSE Null

Miss == [useCache |-> FALSE, cachedData |-> Null]
Pending == [useCache |-> FALSE, cachedData |-> Undefined]
Hit(data) == [useCache |-> TRUE, cachedData |-> data]

NoFile == [exists |-> FALSE, mtime |-> 0, content |-> GarbageText]
IdleGate == [pc |-> "idle", caller |-> "none", forceRefresh |-> FALSE,
             maxAgeHours |-> Undefined, statDone |-> FALSE, fileAge |-> 0,
             result |-> Pending]
\* what main last wrote, when, and whether the file is still that write
NothingWritten == [result |-> Undefined, intact |-> FALSE, writes |-> 0]

(***************************************************************************)
(* The scraper's actions.                                                  *)
(***************************************************************************)
\* initialize(): launches a browser unless one is already held
Initialize ==
    /\ wpPc = "idle" /\ smpPc = "idle"
    /\ browser = "null"
    /\ browser' = "open"
    /\ ownsBrowser' = TRUE
    /\ UNCHANGED <<members, listResult, wpPc, returned, smpPc, maxConcurrent, delay,
                   mwp, loopI, tasks, pages, gotos, completedCount, successCount,
                   delayWaits, waitedMs, wpOpts>>
    /\ UNCHANGED <<cacheVars, classVars, listVars, lifeVars>>

\* a caller invokes scrapeMultipleProfiles(list, {maxConcurrent, delay})
CallScrapeMultipleProfiles(list, rawC, rawD) ==
    /\ wpPc = "idle" /\ smpPc = "idle"
    /\ LET c == NormalizeConcurrency(WithDefault(rawC, Whole(3)))
           d == NormalizeDelay(WithDefault(rawD, Whole(1000)))
           tk == [k \in 1..Len(list) |-> IdleTask]
       IN  IF browser = "null"
           THEN /\ smpPc' = "threwInit"
                /\ UNCHANGED <<members, maxConcurrent, delay, mwp, loopI, tasks, pages,
                               gotos, completedCount, wpPc, returned>>
           ELSE /\ members' = list
                /\ maxConcurrent' = c
                /\ delay' = d
                /\ mwp' = WithProfileUrl(list)
                /\ pages' = [k \in 1..Len(list) |-> "none"]
                /\ gotos' = [k \in 1..Len(list) |-> 0]
                /\ EnterLoop(0, WithProfileUrl(list), c, list, tk, 0, browser, wpPc)
    /\ UNCHANGED <<browser, ownsBrowser, listResult, successCount, delayWaits,
                   waitedMs, wpOpts>>
    /\ UNCHANGED <<cacheVars, classVars, listVars, lifeVars>>

\* a caller invokes scrapeHouseOfRepresentativesWithProfiles(options):
\* scrapeAllPages throws at once without a browser, else the list scrape runs
CallWithProfiles(opts) ==
    /\ wpPc = "idle" /\ smpPc = "idle"
    /\ IF browser = "null"
       THEN wpPc' = "threw" /\ wpOpts' = wpOpts
       ELSE wpPc' = "listing" /\ wpOpts' = opts
    /\ UNCHANGED <<browser, ownsBrowser, members, listResult, returned, smpPc,
                   maxConcurrent, delay, mwp, loopI, tasks, pages, gotos,
                   completedCount, successCount, delayWaits, waitedMs>>
    /\ UNCHANGED <<cacheVars, classVars, listVars, lifeVars>>

\* scrapeAllPages throws (navigation failure, no table, zero valid members)
ListScrapeFails ==
    /\ wpPc = "listing"
    /\ wpPc' = "threw"
    /\ wpOpts' = NoOpts
    /\ UNCHANGED <<browser, ownsBrowser, members, listResult, returned, smpPc,
                   maxConcurrent, delay, mwp, loopI, tasks, pages, gotos,
                   completedCount, successCount, delayWaits, waitedMs>>
    /\ UNCHANGED <<cacheVars, classVars, listVars, lifeVars>>

\* scrapeAllPages returns its members; ...WithProfiles runs on to its first
\* suspension: it returns, or the first batch of fetch tasks is in flight
ListScrapeSucceeds(list) ==
    /\ wpPc = "listing"
    /\ listResult' = list
    /\ members' = list
    /\ wpOpts' = [NoOpts EXCEPT !.maxProfiles = wpOpts.maxProfiles]
    /\ LET withUrls == WithProfileUrl(list)
           maxProfiles == WithDefault(wpOpts.maxProfiles, Whole(10))
           toScrape == IF maxProfiles = MaxSafeInteger THEN withUrls
                       ELSE SubSeq(withUrls, 1, SliceEnd(Len(withUrls), maxProfiles))
           c == NormalizeConcurrency(
                    WithDefault(WithDefault(wpOpts.maxConcurrentProfiles, Whole(2)), Whole(3)))
           d == NormalizeDelay(
                    WithDefault(WithDefault(wpOpts.profileDelay, Whole(2000)), Whole(1000)))
           tk == [k \in 1..Len(list) |-> IdleTask]
       IN  IF ~wpOpts.includeProfiles \/ withUrls = <<>>
           THEN /\ wpPc' = "returned"
                /\ returned' = list
                /\ UNCHANGED <<smpPc, maxConcurrent, delay, mwp, loopI, tasks, pages,
                               gotos, completedCount>>
           ELSE /\ maxConcurrent' = c
                /\ delay' = d
                /\ mwp' = toScrape
                /\ pages' = [k \in 1..Len(list) |-> "none"]
                /\ gotos' = [k \in 1..Len(list) |-> 0]
                /\ EnterLoop(0, toScrape, c, list, tk, 0, browser, "enriching")
    /\ UNCHANGED <<browser, ownsBrowser, successCount, delayWaits, waitedMs>>
    /\ UNCHANGED <<cacheVars, classVars, listVars, lifeVars>>

TaskFrame == UNCHANGED <<browser, ownsBrowser, listResult, maxConcurrent, delay, mwp,
                         loopI, delayWaits, waitedMs, wpOpts, cacheVars, classVars, listVars, lifeVars>>

\* `await this.newPage()` resolves: the page is open, page.goto is called
NewPageResolves(k) ==
    /\ tasks[k].st = "opening"
    /\ pages' = [pages EXCEPT ![k] = "open"]
    /\ gotos' = [gotos EXCEPT ![k] = @ + 1]
    /\ tasks' = [tasks EXCEPT ![k].st = "navigating"]
    /\ UNCHANGED <<members, completedCount, successCount, smpPc, wpPc, returned>>
    /\ TaskFrame

\* `await this.newPage()` rejects (the browser is gone): it is outside the
\* try block, so scrapeProfile rejects and so does the task
NewPageRejects(k) ==
    /\ tasks[k].st = "opening"
    /\ Rejected(k)
    /\ UNCHANGED <<members, pages, gotos, completedCount, successCount>>
    /\ TaskFrame

\* page.goto resolves: extractProfileFromPage starts reading the page
GotoResolves(k) ==
    /\ tasks[k].st = "navigating"
    /\ tasks' = [tasks EXCEPT ![k].st = "extracting"]
    /\ UNCHANGED <<members, pages, gotos, completedCount, successCount, smpPc, wpPc,
                   returned>>
    /\ TaskFrame

\* page.goto rejects (network error, timeout): caught, the result is null,
\* and the finally block calls page.close()
GotoRejects(k) ==
    /\ tasks[k].st = "navigating"
    /\ tasks' = [tasks EXCEPT ![k] = [st |-> "closing", result |-> Null]]
    /\ UNCHANGED <<members, pages, gotos, completedCount, successCount, smpPc, wpPc,
                   returned>>
    /\ TaskFrame

\* extractProfileFromPage returns; the finally block calls page.close()
ExtractReturns(k, kind) ==
    /\ tasks[k].st = "extracting"
    /\ tasks' = [tasks EXCEPT ![k] = [st |-> "closing",
                                      result |-> ExtractProfileFromPage(kind)]]
    /\ UNCHANGED <<members, pages, gotos, completedCount, successCount, smpPc, wpPc,
                   returned>>
    /\ TaskFrame

\* what the task's continuation stores in the member
Attached(m, profile) == IF Truthy(profile) THEN [m EXCEPT !.profile = profile] ELSE m

\* page.close() resolves: scrapeProfile returns its result and the task's
\* continuation counts it and attaches a truthy profile to its member
CloseResolves(k) ==
    /\ tasks[k].st = "closing"
    /\ pages' = [pages EXCEPT ![k] = "closed"]
    /\ tasks' = [tasks EXCEPT ![k].st = "settled"]
    /\ completedCount' = completedCount + 1
    /\ members' = [members EXCEPT ![k] = Attached(@, tasks[k].result)]
    /\ successCount' = IF Truthy(tasks[k].result) THEN successCount + 1 ELSE successCount
    /\ UNCHANGED <<gotos, smpPc, wpPc, returned>>
    /\ TaskFrame

\* page.close() rejects: the finally block throws, scrapeProfile rejects
CloseRejects(k) ==
    /\ tasks[k].st = "closing"
    /\ Rejected(k)
    /\ UNCHANGED <<members, pages, gotos, completedCount, successCount>>
    /\ TaskFrame

\* Promise.all(promises) resolves: every task of the batch has settled; the
\* delay timer is started, or the loop goes on
BatchJoin ==
    /\ smpPc = "awaitAll"
    /\ \A k \in Batch(mwp, loopI, maxConcurrent) : tasks[k].st = "settled"
    /\ IF DelayNeeded(loopI, maxConcurrent, Len(mwp), delay)
       THEN /\ smpPc' = "delay"
            /\ delayWaits' = delayWaits + 1
            /\ UNCHANGED <<loopI, tasks, completedCount, wpPc, returned>>
       ELSE /\ delayWaits' = delayWaits
            /\ EnterLoop(loopI + maxConcurrent, mwp, maxConcurrent, members, tasks,
                         completedCount, browser, wpPc)
    /\ UNCHANGED <<browser, ownsBrowser, members, listResult, maxConcurrent, delay, mwp,
                   pages, gotos, successCount, waitedMs, wpOpts>>
    /\ UNCHANGED <<cacheVars, classVars, listVars, lifeVars>>

\* the delay timer fires: the next batch is launched
TimerFires ==
    /\ smpPc = "delay"
    /\ waitedMs' = waitedMs + delay
    /\ EnterLoop(loopI + maxConcurrent, mwp, maxConcurrent, members, tasks,
                 completedCount, browser, wpPc)
    /\ UNCHANGED <<browser, ownsBrowser, members, listResult, maxConcurrent, delay, mwp,
                   pages, gotos, successCount, delayWaits, wpOpts>>
    /\ UNCHANGED <<cacheVars, classVars, listVars, lifeVars>>

WpOptions ==
    [includeProfiles : BOOLEAN, maxConcurrentProfiles : RawConcurrency,
     profileDelay : RawDelay, maxProfiles : RawMaxProfiles]

\* no lifecycle call yet
NoCall == [op |-> "none", outcome |-> "none"]
LifeIdle == [pc |-> "idle", op |-> "none", last |-> NoCall,
             launched |-> {}, closed |-> {}, released |-> {}]

SchedInit ==
    /\ life = LifeIdle
    /\ browser = "null"
    /\ ownsBrowser = FALSE
    /\ members = <<>>
    /\ listResult = <<>>
    /\ wpPc = "idle"
    /\ returned = <<>>
    /\ smpPc = "idle"
    /\ maxConcurrent = 1
    /\ delay = 0
    /\ mwp = <<>>
    /\ loopI = 0
    /\ tasks = <<>>
    /\ pages = <<>>
    /\ gotos = <<>>
    /\ completedCount = 0
    /\ successCount = 0
    /\ delayWaits = 0
    /\ waitedMs = 0
    /\ wpOpts = NoOpts

CacheIdle ==
    /\ now = 0
    /\ file = NoFile
    /\ gate = IdleGate
    /\ mainPc = "idle"
    /\ written = NothingWritten

ClassIdle ==
    /\ rawInfo = <<>>
    /\ parsed = [t |-> "none"]

ListIdle ==
    /\ lsPc = "idle"
    /\ pageIndex = 0
    /\ pageRows = <<>>
    /\ rawMemberData = <<>>
    /\ rawAgain = <<>>
    /\ processedMembers = <<>>

Init == SchedInit /\ CacheIdle /\ ClassIdle /\ ListIdle

Next ==
    \/ Initialize
    \/ /\ wpPc = "idle" /\ smpPc = "idle"
       /\ \E list \in MemberLists, rawC \in RawConcurrency, rawD \in RawDelay :
             CallScrapeMultipleProfiles(list, rawC, rawD)
    \/ /\ wpPc = "idle" /\ smpPc = "idle"
       /\ \E opts \in WpOptions : CallWithProfiles(opts)
    \/ ListScrapeFails
    \/ /\ wpPc = "listing"
       /\ \E list \in ScrapedLists : ListScrapeSucceeds(list)
    \/ \E k \in DOMAIN tasks : NewPageResolves(k)
    \/ \E k \in DOMAIN tasks : NewPageRejects(k)
    \/ \E k \in DOMAIN tasks : GotoResolves(k)
    \/ \E k \in DOMAIN tasks : GotoRejects(k)
    \/ \E k \in DOMAIN tasks, kind \in PageKinds : ExtractReturns(k, kind)
    \/ \E k \in DOMAIN tasks : CloseResolves(k)
    \/ \E k \in DOMAIN tasks : CloseRejects(k)
    \/ BatchJoin
    \/ TimerFires

Spec == Init /\ [][Next]_vars

(***************************************************************************)
(* Claims about the enrichment scheduler.                                  *)
(***************************************************************************)
CeilDiv(n, c) == (n + c - 1) \div c

\* C1: during scrapeMultipleProfiles with normalized concurrency c, the
\* number of fetch tasks that have started and not yet settled is at most
\* c in every reachable state.
C1_InFlightBound == Cardinality(InFlight) <= maxConcurrent

\* C1 witness: c = 2, five URL-bearing members, the second batch fully in
\* flight while the fifth member has not started.
C1_Witness ==
    /\ maxConcurrent = 2
    /\ Len(mwp) = 5
    /\ loopI = 2
    /\ Cardinality(InFlight) = 2
    /\ tasks[mwp[5]].st = "idle"

\* C2: a failing fetch for one member (also a page that cannot be opened or
\* closed) leaves that member's profile unset and never aborts the run:
\* scrapeMultipleProfiles does not throw because of a task, and at its end
\* every member whose own fetch gave a profile carries it.
C2_FailureIsolation ==
    /\ smpPc # "threwTask"
    /\ \A k \in DOMAIN tasks :
          (tasks[k].st \in {"settled", "rejected"} /\ ~Truthy(tasks[k].result))
             => members[k].profile = Undefined
    /\ smpPc = "done" =>
          \A k \in DOMAIN tasks :
             Truthy(tasks[k].result) => members[k].profile = tasks[k].result

\* C3: with n URL-bearing members, batch size c and delay d > 0, a wait of
\* d is started after each batch that is followed by another one, and at
\* no other time: none before the first batch, none after the last, so a
\* run that returns has waited exactly ceil(n/c) - 1 times (0 times for
\* n = 0) and d * (ceil(n/c) - 1) ms.
C3_DelayBetweenBatches ==
    delay > 0 =>
       LET n == Len(mwp)
           c == maxConcurrent
       IN  /\ smpPc \in {"awaitAll", "threwTask"} => delayWaits = loopI \div c
           /\ smpPc = "delay" => delayWaits = loopI \div c + 1 /\ loopI + c < n
           /\ smpPc = "done" =>
                 delayWaits = (IF n = 0 THEN 0 ELSE CeilDiv(n, c) - 1)
           /\ waitedMs = delay * (IF smpPc = "delay" THEN delayWaits - 1 ELSE delayWaits)

\* C3 witness: c = 1, d = 500 ms, two URL-bearing members, the run has
\* returned after exactly one wait of 500 ms.
C3_Witness ==
    /\ smpPc = "done"
    /\ maxConcurrent = 1
    /\ delay = 500
    /\ Len(mwp) = 2
    /\ delayWaits = 1
    /\ waitedMs = 500

\* C4: for a profile URL that does not parse (a relative path, https:// with
\* no host) or whose scheme is not http or https (ftp), the task fails at
\* once: its result is null, the member's profile stays unset, and no page
\* is opened and no navigation attempted for it.
C4_AdmissionControl ==
    \A k \in DOMAIN tasks :
       (/\ tasks[k].st # "idle"
        /\ members[k].profileUrl \in {FtpUrl, RelativeUrl, EmptyHostUrl})
       => /\ tasks[k] = [st |-> "settled", result |-> Null]
          /\ pages[k] = "none"
          /\ gotos[k] = 0
          /\ members[k].profile = Undefined

\* C4 witness: a run is over in which a member with an ftp: URL was handled
\* next to a member whose page was fetched.
C4_Witness ==
    /\ smpPc = "done"
    /\ \E k \in DOMAIN tasks :
          members[k].profileUrl = FtpUrl /\ tasks[k].st = "settled"
    /\ \E k \in DOMAIN tasks : pages[k] = "closed"

WithoutProfile(m) == [m EXCEPT !.profile = Undefined]

\* C5: once the list scrape has succeeded, scrapeHouseOfRepresentatives-
\* WithProfiles returns the complete base list (same members, same order,
\* every field but profile unchanged) whatever profile fetches fail, also
\* when the whole enrichment step throws; it raises only when the list
\* scrape itself did not succeed.
C5_BaseListReturned ==
    /\ wpPc = "threw" => listResult = <<>>
    /\ wpPc = "returned" =>
          /\ Len(listResult) >= 1
          /\ Len(returned) = Len(listResult)
          /\ \A k \in 1..Len(listResult) : WithoutProfile(returned[k]) = listResult[k]
    /\ listResult # <<>> =>
          \A k \in 1..Len(listResult) : WithoutProfile(members[k]) = listResult[k]

\* the limit the maxProfiles option states: 10 when it is not given
ProfileLimit == WithDefault(wpOpts.maxProfiles, Whole(10))

\* C21: with maxProfiles = N a fetch is attempted for at most N members,
\* the first N members with a profileUrl in list order, for every integer N
\* (0 and negative N: none), Number.MAX_SAFE_INTEGER meaning no limit; no
\* other member is fetched or receives a profile.
C21_ProfileLimit ==
    wpPc \in {"enriching", "returned"} =>
        LET withUrls == WithProfileUrl(members)
            n == IF ProfileLimit = MaxSafeInteger THEN Len(withUrls)
                 ELSE Min(Max(ProfileLimit.tenths \div 10, 0), Len(withUrls))
            firstN == {withUrls[j] : j \in 1..n}
        IN  \A k \in DOMAIN tasks :
               k \notin firstN =>
                  /\ tasks[k].st = "idle"
                  /\ pages[k] = "none"
                  /\ members[k].profile = Undefined

\* C22: the end of a batch is a synchronization point: the tasks in flight
\* all belong to the current batch, and whenever the scheduler has moved on
\* (it waits for the delay, has returned, or has thrown to its caller) no
\* task is still running.
C22_BatchBoundary ==
    /\ InFlight \subseteq Batch(mwp, loopI, maxConcurrent)
    /\ smpPc \in {"delay", "done", "threwTask"} => InFlight = {}

\* C23: a member with a profileUrl is handled by one fetch task, which opens
\* at most one page and navigates at most once, and a profile a member
\* carries is the result of its own task; a member without a profileUrl is
\* handled by no task and keeps its profile unset; every other field of
\* every member stays as the list scrape delivered it.
C23_ExclusiveOwnership ==
    /\ \A k \in DOMAIN tasks :
          /\ gotos[k] <= 1
          /\ members[k].profile # Undefined =>
                members[k].profile = tasks[k].result /\ tasks[k].st = "settled"
          /\ members[k].profileUrl = NoUrl =>
                /\ tasks[k] = IdleTask
                /\ pages[k] = "none"
                /\ members[k].profile = Undefined
    /\ completedCount <= Cardinality({k \in DOMAIN tasks : tasks[k].st = "settled"})
    /\ listResult # <<>> =>
          \A k \in DOMAIN members : WithoutProfile(members[k]) = listResult[k]

\* C23 witness: a run is over in which one member received a profile and a
\* member without a profileUrl was left alone.
C23_Witness ==
    /\ smpPc = "done"
    /\ \E k \in DOMAIN tasks : members[k].profile # Undefined
    /\ \E k \in DOMAIN tasks : members[k].profileUrl = NoUrl /\ tasks[k] = IdleTask

\* C24: a page opened by a fetch task is closed when the task has exited,
\* and once the enrichment run has returned or thrown no page is open.
C24_PagesClosed ==
    /\ \A k \in DOMAIN tasks :
          tasks[k].st \in {"settled", "rejected"} => pages[k] # "open"
    /\ (smpPc \in {"done", "threwTask"} \/ wpPc = "returned") =>
          \A k \in DOMAIN pages : pages[k] # "open"

\* C5 witness: the enrichment step threw after one member had received its
\* profile, and the call returned the partially enriched list.
C5_Witness ==
    /\ wpPc = "returned"
    /\ smpPc = "threwTask"
    /\ \E k \in 1..Len(returned) : returned[k].profile # Undefined
    /\ \E k \in 1..Len(returned) :
          returned[k].profileUrl # NoUrl /\ returned[k].profile = Undefined


(***************************************************************************)
(* The cache gate in front of main (index.ts, cache.ts).                   *)
(* shouldUseCachedData is synchronous; its file-system calls are separate  *)
(* steps because other processes may touch the file between them.          *)
(***************************************************************************)
MaxHours == 25
\* the instants the clock visits: around the default threshold and past it
ClockValues ==
    {0, HourMs, DefaultMaxAgeHours * HourMs - 1, DefaultMaxAgeHours * HourMs,
     MaxHours * HourMs}

RawMaxAgeHours == {Undefined, NaN, Whole(0), Whole(1)}
CacheOptions == [forceRefresh : BOOLEAN, maxAgeHours : RawMaxAgeHours]

\* payload strings are opaque to the cache; U+4E0D U+660E is the sentinel
Unknown == "U4E0D U660E"
\* a member whose descriptor was the sentinel: `number: undefined`
SentinelMember ==
    Obj([name |-> Str("a"), party |-> Str("p"),
         election |-> Obj([system |-> Str("single-seat"),
                           prefecture |-> Str(Unknown),
                           number |-> Undefined])])
ProfiledMember ==
    Obj([name |-> Str("b"), party |-> Str("p"),
         profileUrl |-> Str("https://www.shugiin.go.jp/profile/1.htm"),
         election |-> Obj([system |-> Str("single-seat"),
                           prefecture |-> Str("U6771 U4EAC"),
                           number |-> Str("01")]),
         profile |-> Obj([biography |-> Str("x")])])
ScrapeResultOf(list) ==
    Obj([members |-> Arr(list), scrapedAt |-> Str("iso-8601"),
         source |-> Str("house-of-representatives-list")])
ScrapeResults ==
    {ScrapeResultOf(<<SentinelMember>>),
     ScrapeResultOf(<<SentinelMember, ProfiledMember>>)}

\* what another process may leave in the file
ExternalContents ==
    {GarbageText, UnreadableText, JsonText(Null),
     JsonText(Obj([scrapedAt |-> Str("iso-8601"), source |-> Str("s")])),
     JsonText(Obj([members |-> Str("none"), scrapedAt |-> Str("iso-8601"),
                   source |-> Str("s")])),
     JsonText(Obj([members |-> Arr(<<>>), scrapedAt |-> Num(0),
                   source |-> Str("s")])),
     JsonText(Obj([members |-> Arr(<<>>), scrapedAt |-> Str("iso-8601"),
                   source |-> Null])),
     JsonText(ScrapeResultOf(<<ProfiledMember>>))}

\* shouldUseCachedData up to its first file-system call
GateCalled(caller, opts) ==
    IF ForceRefreshShortCircuits(opts.forceRefresh)
    THEN [IdleGate EXCEPT !.pc = "done", !.caller = caller,
                          !.forceRefresh = opts.forceRefresh,
                          !.maxAgeHours = opts.maxAgeHours, !.result = Miss]
    ELSE [IdleGate EXCEPT !.pc = "existsSync", !.caller = caller,
                          !.forceRefresh = opts.forceRefresh,
                          !.maxAgeHours = opts.maxAgeHours]

\* isCacheValid: `if (!existsSync(filePath)) return false`
GateExistsSync ==
    /\ gate.pc = "existsSync"
    /\ gate' = IF file.exists
               THEN [gate EXCEPT !.pc = "statSync"]
               ELSE [gate EXCEPT !.pc = "done", !.result = Miss]
    /\ UNCHANGED <<now, file, mainPc, written, schedVars, classVars, listVars, lifeVars>>

\* isCacheValid: statSync (throws when the file is gone), the age and the
\* comparison with the threshold
GateStatSync ==
    /\ gate.pc = "statSync"
    /\ gate' = IF ~file.exists
               THEN [gate EXCEPT !.pc = "threw"]
               ELSE LET fileAge == now - file.mtime
                        maxAgeHours == WithDefault(gate.maxAgeHours,
                                                   Whole(DefaultMaxAgeHours))
                    IN  IF IsFresh(fileAge, maxAgeHours)
                        THEN [gate EXCEPT !.pc = "loadExistsSync",
                                          !.statDone = TRUE,
                                          !.fileAge = fileAge]
                        ELSE [gate EXCEPT !.pc = "done", !.statDone = TRUE,
                                          !.fileAge = fileAge,
                                          !.result = Miss]
    /\ UNCHANGED <<now, file, mainPc, written, schedVars, classVars, listVars, lifeVars>>

\* loadCachedData: `if (!existsSync(filePath)) return null`
GateLoadExistsSync ==
    /\ gate.pc = "loadExistsSync"
    /\ gate' = IF file.exists
               THEN [gate EXCEPT !.pc = "readFileSync"]
               ELSE [gate EXCEPT !.pc = "done", !.result = Miss]
    /\ UNCHANGED <<now, file, mainPc, written, schedVars, classVars, listVars, lifeVars>>

\* loadCachedData's try block and the rest of shouldUseCachedData
GateReadFileSync ==
    /\ gate.pc = "readFileSync"
    /\ LET cachedData == LoadCachedData(file)
       IN  gate' = [gate EXCEPT !.pc = "done",
                                !.result = IF Truthy(cachedData)
                                           THEN Hit(cachedData) ELSE Miss]
    /\ UNCHANGED <<now, file, mainPc, written, schedVars, classVars, listVars, lifeVars>>


(***************************************************************************)
(* main: the gate, then either the cached result or a scrape and a write.  *)
(***************************************************************************)
MainStart(forceRefresh) ==
    /\ mainPc = "idle" /\ gate.pc = "idle"
    /\ mainPc' = "gate"
    /\ gate' = GateCalled("main", [forceRefresh |-> forceRefresh,
                                   maxAgeHours |-> Undefined])
    /\ written' = [written EXCEPT !.writes = 0]
    /\ UNCHANGED <<now, file, schedVars, classVars, listVars, lifeVars>>

\* `if (cacheCheck.useCache && cacheCheck.cachedData)`
UsesCacheNever(result) == FALSE

UsesCache(result) == result.useCache /\ Truthy(result.cachedData)

\* the cached branch: the result is taken from the gate, nothing else runs
MainUsesCache ==
    /\ mainPc = "gate" /\ gate.pc = "done"
    /\ UsesCache(gate.result)
    /\ mainPc' = "cached"
    /\ gate' = IdleGate
    /\ UNCHANGED <<now, file, written, schedVars, classVars, listVars, lifeVars>>

\* the else branch, up to `await scraper.initialize()`
MainScrapes ==
    /\ mainPc = "gate" /\ gate.pc = "done"
    /\ ~UsesCache(gate.result)
    /\ mainPc' = "initializing"
    /\ gate' = IdleGate
    /\ UNCHANGED <<now, file, written, schedVars, classVars, listVars, lifeVars>>

MainFrame == UNCHANGED <<members, listResult, wpPc, returned, smpPc, maxConcurrent,
                         delay, mwp, loopI, tasks, pages, gotos, completedCount,
                         successCount, delayWaits, waitedMs, wpOpts, classVars,
                         listVars, lifeVars>>

\* chromium.launch resolves and the scrape is called
MainInitialized ==
    /\ mainPc = "initializing"
    /\ mainPc' = "scraping"
    /\ browser' = "open"
    /\ ownsBrowser' = TRUE
    /\ MainFrame
    /\ UNCHANGED <<now, file, gate, written>>

\* chromium.launch rejects: main's catch, nothing is scraped
MainInitializeFails ==
    /\ mainPc = "initializing"
    /\ mainPc' = "failed"
    /\ UNCHANGED <<now, file, gate, written, schedVars, classVars, listVars, lifeVars>>

\* an exception of the gate lands in main's catch: nothing is scraped
MainGateThrew ==
    /\ mainPc = "gate" /\ gate.pc = "threw"
    /\ mainPc' = "failed"
    /\ gate' = IdleGate
    /\ UNCHANGED <<now, file, written, schedVars, classVars, listVars, lifeVars>>

\* writeFileSync(outputPath, JSON.stringify(result, null, 2), 'utf-8')
MainScrapeReturns(result) ==
    /\ mainPc = "scraping"
    /\ file' = [exists |-> TRUE, mtime |-> now, content |-> JsonText(result)]
    /\ written' = [result |-> result, intact |-> TRUE,
                   writes |-> written.writes + 1]
    /\ mainPc' = "exited"
    /\ UNCHANGED <<now, gate, schedVars, classVars, listVars, lifeVars>>

MainScrapeThrows ==
    /\ mainPc = "scraping"
    /\ mainPc' = "failed"
    /\ UNCHANGED <<now, file, gate, written, schedVars, classVars, listVars, lifeVars>>

\* `finally { await scraper.close() }`, then the process ends; the next run
\* starts from scratch
MainExits ==
    /\ mainPc \in {"cached", "exited", "failed"}
    /\ mainPc' = "idle"
    /\ browser' = "null"
    /\ ownsBrowser' = FALSE
    /\ MainFrame
    /\ UNCHANGED <<now, file, gate, written>>

\* shouldUseCachedData called on its own with any options
DirectCall(opts) ==
    /\ mainPc = "idle" /\ gate.pc = "idle"
    /\ gate' = GateCalled("direct", opts)
    /\ UNCHANGED <<now, file, mainPc, written, schedVars, classVars, listVars, lifeVars>>

DirectReturn ==
    /\ gate.caller = "direct" /\ gate.pc \in {"done", "threw"}
    /\ gate' = IdleGate
    /\ UNCHANGED <<now, file, mainPc, written, schedVars, classVars, listVars, lifeVars>>

(***************************************************************************)
(* The environment: the clock and other processes.                         *)
(***************************************************************************)
Tick(t) ==
    /\ t > now
    /\ now' = t
    /\ UNCHANGED <<file, gate, mainPc, written, schedVars, classVars, listVars, lifeVars>>

ExternalRemove ==
    /\ file.exists
    /\ file' = NoFile
    /\ written' = [written EXCEPT !.intact = FALSE]
    /\ UNCHANGED <<now, gate, mainPc, schedVars, classVars, listVars, lifeVars>>

ExternalWrite(content) ==
    /\ file' = [exists |-> TRUE, mtime |-> now, content |-> content]
    /\ file' # file
    /\ written' = [written EXCEPT !.intact = FALSE]
    /\ UNCHANGED <<now, gate, mainPc, schedVars, classVars, listVars, lifeVars>>

InitCache == SchedInit /\ CacheIdle /\ ClassIdle /\ ListIdle

NextCache ==
    \/ \E forceRefresh \in BOOLEAN : MainStart(forceRefresh)
    \/ MainUsesCache
    \/ MainScrapes
    \/ MainInitialized
    \/ MainInitializeFails
    \/ MainGateThrew
    \/ \E result \in ScrapeResults : MainScrapeReturns(result)
    \/ MainScrapeThrows
    \/ MainExits
    \/ /\ mainPc = "idle" /\ gate.pc = "idle"
       /\ \E opts \in CacheOptions : DirectCall(opts)
    \/ DirectReturn
    \/ GateExistsSync
    \/ GateStatSync
    \/ GateLoadExistsSync
    \/ GateReadFileSync
    \/ \E t \in ClockValues : Tick(t)
    \/ ExternalRemove
    \/ \E content \in ExternalContents : ExternalWrite(content)

SpecCache == InitCache /\ [][NextCache]_vars


(***************************************************************************)
(* Claims about the cache gate.                                            *)
(***************************************************************************)
\* the threshold of the call in progress, in hours, 24 when none was given
ThresholdHours == IF gate.maxAgeHours = Undefined THEN Whole(24)
                  ELSE gate.maxAgeHours
\* the measured age is strictly below the threshold (never so for NaN)
AgeBelowThreshold ==
    /\ ThresholdHours.t = "num"
    /\ gate.fileAge * 10 < ThresholdHours.tenths * 3600000
\* an object with an array `members`, a string `scrapedAt`, a string `source`
WellFormedEntry(data) ==
    /\ data.t = "object"
    /\ {"members", "scrapedAt", "source"} \subseteq DOMAIN data.f
    /\ data.f["members"].t = "array"
    /\ data.f["scrapedAt"].t = "string"
    /\ data.f["source"].t = "string"
FileHoldsEntry ==
    /\ file.exists /\ file.content.kind = "json"
    /\ WellFormedEntry(file.content.value)

\* C6: a call of shouldUseCachedData with forceRefresh = true has returned
\* {useCache: false, cachedData: null} as soon as it has started, whatever
\* the file holds and whatever maxAgeHours is; it makes no file-system call
\* and does not throw.
C6_ForceRefresh ==
    gate.forceRefresh => gate.pc = "done" /\ gate.result = Miss

\* C6 witness: a forced call has returned while the file holds a well-formed
\* entry written this very instant.
C6_Witness ==
    /\ gate.pc = "done" /\ gate.forceRefresh
    /\ gate.maxAgeHours = Whole(1)
    /\ FileHoldsEntry /\ file.mtime = now

\* C7: without forceRefresh, a call that measured an age at or past the
\* threshold (maxAgeHours hours, 24 by default) returns a miss, and a call
\* that returns useCache = true measured an age strictly below it.
C7_Staleness ==
    gate.pc = "done" /\ ~gate.forceRefresh =>
        /\ gate.statDone /\ ~AgeBelowThreshold => gate.result = Miss
        /\ gate.result.useCache => gate.statDone /\ AgeBelowThreshold

\* C7 witness: a well-formed entry aged exactly 24 hours, default threshold,
\* and the call returned a miss.
C7_Witness ==
    /\ gate.pc = "done" /\ ~gate.forceRefresh
    /\ gate.maxAgeHours = Undefined
    /\ gate.statDone /\ gate.fileAge = 24 * 3600000
    /\ FileHoldsEntry
    /\ gate.result = Miss

\* C8: shouldUseCachedData never throws, and it returns useCache = true only
\* with a well-formed entry, so that every other on-disk state (missing,
\* unreadable, not JSON, wrong shape, removed during the call) is a miss.
C8_CorruptionNeverBlocks ==
    /\ gate.pc # "threw"
    /\ gate.pc = "done" =>
          \/ gate.result = Miss
          \/ /\ gate.result.useCache
             /\ WellFormedEntry(gate.result.cachedData)

\* C9: when main has written a result and the file is still that write, a
\* call without forceRefresh that measures an age below the threshold
\* returns useCache = true, and cachedData.members is the members that were
\* written, i.e. their JSON form (a key whose value was undefined in memory
\* is in neither).
C9_RoundTrip ==
    /\ gate.pc = "done" /\ ~gate.forceRefresh
    /\ written.intact
    /\ gate.statDone /\ AgeBelowThreshold
    => /\ gate.result.useCache
       /\ gate.result.cachedData.f["members"]
              = JsonOf(written.result).f["members"]

\* C9 witness: the result with the sentinel member and a profiled member
\* was written, an hour passed, and the next call reused it.
C9_Witness ==
    /\ gate.pc = "done" /\ ~gate.forceRefresh
    /\ written.intact
    /\ written.result = ScrapeResultOf(<<SentinelMember, ProfiledMember>>)
    /\ gate.statDone /\ gate.fileAge = 3600000
    /\ gate.result.useCache
    /\ Len(gate.result.cachedData.f["members"].items) = 2

\* a step of main, as opposed to one of the clock or of another process
MainSteps == mainPc' # mainPc

\* C26: the cache gate of main.  When the gate returns useCache = true, main
\* takes the cached branch: no browser is launched, no scrape starts and the
\* file is not written before the run ends.  When it returns useCache =
\* false, main goes on to launch the browser and scrape; main writes the
\* file only in the step in which the scrape has returned, exactly once in
\* the run, and a scrape (or a launch) that throws writes nothing and leaves
\* the file as it was.
C26_CacheGate ==
    [][/\ (MainSteps /\ mainPc = "gate" /\ gate.pc = "done"
           /\ gate.result.useCache)
          => (mainPc' = "cached" /\ browser' = "null" /\ file' = file
              /\ written' = written)
       /\ (MainSteps /\ mainPc = "cached")
          => (mainPc' = "idle" /\ browser = "null" /\ browser' = "null"
              /\ file' = file /\ written.writes = 0 /\ written' = written)
       /\ (MainSteps /\ mainPc = "gate" /\ gate.pc = "done"
           /\ ~gate.result.useCache)
          => (mainPc' = "initializing" /\ file' = file)
       /\ (MainSteps /\ mainPc = "initializing")
          => (mainPc' \in {"scraping", "failed"} /\ file' = file
              /\ written' = written)
       /\ (MainSteps /\ mainPc' = "scraping") => browser' = "open"
       /\ (MainSteps /\ (file' # file \/ written' # written) /\ mainPc # "idle")
          => (mainPc = "scraping" /\ mainPc' = "exited")
       /\ (MainSteps /\ mainPc = "scraping" /\ mainPc' = "exited")
          => (/\ written.writes = 0 /\ written'.writes = 1
              /\ file'.exists /\ file'.content = JsonText(written'.result))
       /\ (MainSteps /\ mainPc = "scraping" /\ mainPc' # "exited")
          => (mainPc' = "failed" /\ file' = file /\ written' = written)
       /\ (MainSteps /\ mainPc' = "idle")
          => (/\ file' = file
              /\ written.writes = (IF mainPc = "exited" THEN 1 ELSE 0))
      ]_vars

\* C26 witness: a run of main reuses the entry an earlier run wrote: it is
\* in the cached branch with no browser and nothing written in this run.
C26_Witness ==
    /\ mainPc = "cached"
    /\ browser = "null"
    /\ written.intact /\ written.writes = 0
    /\ file.content = JsonText(written.result)


(***************************************************************************)
(* parseElectionInfo.  A text is a sequence of characters; a character     *)
(* outside ASCII is written by its code point ("U6771" is U+6771).  The    *)
(* literals of the scraper are read as the UTF-8 text they encode.         *)
(***************************************************************************)
MaxDigits == 2

\* PREFECTURES, in the order of the list
PREFECTURES ==
   <<
      <<"U5317", "U6D77", "U9053">>,
      <<"U9752", "U68EE">>,
      <<"U5CA9", "U624B">>,
      <<"U5BAE", "U57CE">>,
      <<"U79CB", "U7530">>,
      <<"U5C71", "U5F62">>,
      <<"U798F", "U5CF6">>,
      <<"U8328", "U57CE">>,
      <<"U6803", "U6728">>,
      <<"U7FA4", "U99AC">>,
      <<"U57FC", "U7389">>,
      <<"U5343", "U8449">>,
      <<"U6771", "U4EAC">>,
      <<"U795E", "U5948", "U5DDD">>,
      <<"U65B0", "U6F5F">>,
      <<"U5BCC", "U5C71">>,
      <<"U77F3", "U5DDD">>,
      <<"U798F", "U4E95">>,
      <<"U5C71", "U68A8">>,
      <<"U9577", "U91CE">>,
      <<"U5C90", "U961C">>,
      <<"U9759", "U5CA1">>,
      <<"U611B", "U77E5">>,
      <<"U4E09", "U91CD">>,
      <<"U6ECB", "U8CC0">>,
      <<"U4EAC", "U90FD">>,
      <<"U5927", "U962A">>,
      <<"U5175", "U5EAB">>,
      <<"U5948", "U826F">>,
      <<"U548C", "U6B4C", "U5C71">>,
      <<"U9CE5", "U53D6">>,
      <<"U5CF6", "U6839">>,
      <<"U5CA1", "U5C71">>,
      <<"U5E83", "U5CF6">>,
      <<"U5C71", "U53E3">>,
      <<"U5FB3", "U5CF6">>,
      <<"U9999", "U5DDD">>,
      <<"U611B", "U5A9B">>,
      <<"U9AD8", "U77E5">>,
      <<"U798F", "U5CA1">>,
      <<"U4F50", "U8CC0">>,
      <<"U9577", "U5D0E">>,
      <<"U718A", "U672C">>,
      <<"U5927", "U5206">>,
      <<"U5BAE", "U5D0E">>,
      <<"U9E7F", "U5150", "U5CF6">>,
      <<"U6C96", "U7E04">>
   >>

\* the blocks the proportional pattern knows, in the order of its alternation
ProportionalBlocks ==
   <<
      <<"U5317", "U6D77", "U9053">>,
      <<"U6771", "U5317">>,
      <<"U5317", "U95A2", "U6771">>,
      <<"U5357", "U95A2", "U6771">>,
      <<"U6771", "U4EAC">>,
      <<"U5317", "U9678", "U4FE1", "U8D8A">>,
      <<"U6771", "U6D77">>,
      <<"U8FD1", "U757F">>,
      <<"U4E2D", "U56FD">>,
      <<"U56DB", "U56FD">>,
      <<"U4E5D", "U5DDE">>
   >>

UnknownText == <<"U4E0D", "U660E">>
\* full-width "(", U+6BD4, full-width ")"
ProportionalMark == <<"UFF08", "U6BD4", "UFF09">>
ProportionalWord == <<"U6BD4", "U4F8B">>

Absent == [t |-> "absent"]

\* String.prototype.includes
Includes(s, sub) ==
    \E i \in 1..(Len(s) - Len(sub) + 1) : SubSeq(s, i, i + Len(sub) - 1) = sub

\* parseInt of a text of decimal digits
RECURSIVE ParseInt(_)
ParseInt(s) ==
    IF s = <<>> THEN 0
    ELSE 10 * ParseInt(SubSeq(s, 1, Len(s) - 1))
         + (CHOOSE d \in 0..9 : DigitChar(d) = s[Len(s)])

\* match(/MARK(block|...)/)?.[1]: the block at the leftmost place where the
\* mark is followed by a block, the first alternative that fits
ProportionalBlockOf(s) ==
    LET fits(i, b) == StartsWith(SliceFrom(s, i - 1),
                                 ProportionalMark \o ProportionalBlocks[b])
        places == {i \in 1..Len(s) : \E b \in DOMAIN ProportionalBlocks : fits(i, b)}
    IN  IF places = {} THEN Undefined
        ELSE LET i == CHOOSE x \in places : \A y \in places : x <= y
                 b == CHOOSE x \in DOMAIN ProportionalBlocks :
                          /\ fits(i, x)
                          /\ \A y \in DOMAIN ProportionalBlocks : fits(i, y) => x <= y
             IN  ProportionalBlocks[b]

\* match(/^(.+?)(\d+)$/): the shortest non-empty prefix after which only
\* digits remain; 0 when there is none
\* the characters the regular expression's `.` does not match
LineTerminators == {"\n", "\r", "U2028", "U2029"}

GenericSplitGreedy(s) ==
    IF Len(s) >= 2 /\ s[Len(s)] \in Digits
          /\ \A j \in 1..(Len(s) - 1) : s[j] \notin LineTerminators
    THEN Len(s) - 1 ELSE 0
GenericSplitAnywhere(s) == IF Len(s) >= 2 THEN 1 ELSE 0
GenericSplit(s) ==
    LET cuts == {k \in 1..(Len(s) - 1) :
                    /\ AllDigits(SliceFrom(s, k))
                    /\ \A j \in 1..k : s[j] \notin LineTerminators}
    IN  IF cuts = {} THEN 0 ELSE CHOOSE k \in cuts : \A j \in cuts : k <= j

Election(count, system, prefecture, number, area) ==
    [electionCount |-> count, system |-> system, prefecture |-> prefecture,
     number |-> number, area |-> area]

\* decimal text of a natural number
RECURSIVE ToText(_)
ToText(n) == IF n < 10 THEN <<DigitChar(n)>>
             ELSE ToText(n \div 10) \o <<DigitChar(n % 10)>>

\* `number: num`: the slice after the prefecture, as scraped
DistrictNumberCoerced(num) == ToText(ParseInt(num))
DistrictNumber(num) == num

\* the first prefecture of the list that rawInfo starts with and that is
\* followed by digits only; 0 when there is none
PrefectureWithDistrict(raw) ==
    LET hits == {i \in DOMAIN PREFECTURES :
                    /\ StartsWith(raw, PREFECTURES[i])
                    /\ AllDigits(SliceFrom(raw, Len(PREFECTURES[i])))}
    IN  IF hits = {} THEN 0 ELSE CHOOSE i \in hits : \A j \in hits : i <= j

\* `!rawInfo || rawInfo === SENTINEL`
IsSentinelInputSentinelOnly(raw) == raw = UnknownText
IsSentinelInput(raw) == raw = <<>> \/ raw = UnknownText

ParseElectionInfo(raw) ==
    IF IsSentinelInput(raw)
    THEN Election(Absent, "single-seat", Str(UnknownText), Undefined, Absent)
    ELSE IF AllDigits(raw)
    THEN Election(Whole(ParseInt(raw)), "single-seat", Str(UnknownText), Undefined,
                  Absent)
    ELSE IF Includes(raw, ProportionalMark) \/ Includes(raw, ProportionalWord)
    THEN LET block == ProportionalBlockOf(raw)
         IN  Election(Absent, "proportional-representation", Absent, Absent,
                      Str(IF block = Undefined THEN raw ELSE block))
    ELSE IF PrefectureWithDistrict(raw) # 0
    THEN LET prefecture == PREFECTURES[PrefectureWithDistrict(raw)]
             num == SliceFrom(raw, Len(prefecture))
         IN  Election(Absent, "single-seat", Str(prefecture),
                      Str(DistrictNumber(num)), Absent)
    ELSE IF \E i \in DOMAIN PREFECTURES : PREFECTURES[i] = raw
    THEN Election(Absent, "single-seat", Str(raw), Absent, Absent)
    ELSE IF GenericSplit(raw) # 0
    THEN LET k == GenericSplit(raw)
         IN  Election(Absent, "single-seat", Str(SubSeq(raw, 1, k)),
                      Str(SliceFrom(raw, k)), Absent)
    ELSE Election(Absent, "single-seat", Str(raw), Absent, Absent)

\* texts of 1..n decimal digits
DigitTexts(n) == UNION {[1..len -> Digits] : len \in 1..n}

Tokyo == <<"U6771", "U4EAC">>
MaxTextLen == 3
\* digits, a letter, white space, the proportional markers, a prefecture
TextAlphabet == {"0", "1", "a", " ", "\n", "UFF08", "U6BD4", "UFF09", "U4F8B",
                 "U6771", "U4EAC"}
SmallTexts == UNION {[1..len -> TextAlphabet] : len \in 0..MaxTextLen}
\* the descriptors handed to parseElectionInfo: every prefecture followed by
\* a district number, and one or more texts for each other rule
ClassifyInputs ==
    {PREFECTURES[i] \o n : i \in DOMAIN PREFECTURES, n \in DigitTexts(MaxDigits)}
    \cup {<<>>, UnknownText, <<"7">>, <<"0", "1", "2">>,
          ProportionalMark \o Tokyo, ProportionalMark \o <<"x">>,
          ProportionalWord \o Tokyo, Tokyo \o <<"1">> \o ProportionalMark,
          Tokyo, Tokyo \o <<"UFF11">>, Tokyo \o <<"1", "a">>,
          <<"a", "1", "2">>, <<"1", "a", "0", "2">>, <<"a">>}
    \cup SmallTexts

NotParsed == [t |-> "none"]

\* extractMembersFromPage classifies the descriptor of a row
Classify ==
    /\ parsed = NotParsed
    /\ parsed' = ParseElectionInfo(rawInfo)
    /\ UNCHANGED <<rawInfo, schedVars, cacheVars, listVars, lifeVars>>

InitClassify ==
    /\ SchedInit /\ CacheIdle /\ ListIdle
    /\ rawInfo \in ClassifyInputs
    /\ parsed = NotParsed

NextClassify == Classify

SpecClassify == InitClassify /\ [][NextClassify]_vars

(***************************************************************************)
(* Claims about the classifier.                                            *)
(***************************************************************************)
\* C10: for each of the 47 prefectures p and each text n of one or two
\* digits, parseElectionInfo(p + n) is single-seat with prefecture p and
\* number n, the digits exactly as given, and no area.
C10_PrefectureDistrict ==
    \A i \in 1..47 :
        LET p == PREFECTURES[i]
            n == SubSeq(rawInfo, Len(p) + 1, Len(rawInfo))
            isDigit(ch) == ch \in {"0", "1", "2", "3", "4", "5", "6", "7", "8", "9"}
        IN  (/\ parsed # NotParsed
             /\ Len(rawInfo) - Len(p) \in {1, 2}
             /\ SubSeq(rawInfo, 1, Len(p)) = p
             /\ \A k \in 1..Len(n) : isDigit(n[k]))
            => (/\ parsed.system = "single-seat"
                /\ parsed.prefecture = Str(p)
                /\ parsed.number = Str(n)
                /\ parsed.area = Absent)

\* C11: parseElectionInfo of the empty text and of the sentinel give the
\* same descriptor: single-seat, the sentinel as prefecture, no district
\* number (the key holds undefined), no area, no election count.
C11_SentinelDescriptor ==
    rawInfo \in {<<>>, <<"U4E0D", "U660E">>} /\ parsed # NotParsed =>
        /\ parsed.system = "single-seat"
        /\ parsed.prefecture = Str(<<"U4E0D", "U660E">>)
        /\ parsed.number \in {Undefined, Absent}
        /\ parsed.area = Absent
        /\ parsed.electionCount = Absent

\* C11 witness: the empty text has been classified.
C11_Witness ==
    /\ rawInfo = <<>>
    /\ parsed # NotParsed
    /\ parsed.prefecture = Str(<<"U4E0D", "U660E">>)

\* C12: every classified input has exactly one branch populated: either
\* proportional-representation with a non-empty area and neither prefecture
\* nor number, or single-seat with a non-empty prefecture, no area, and a
\* number that is absent or a non-empty text of digits.
C12_OneBranch ==
    LET NonEmptyText(v) == v.t = "string" /\ Len(v.v) >= 1
        DigitText(v) ==
            /\ NonEmptyText(v)
            /\ \A k \in 1..Len(v.v) :
                  v.v[k] \in {"0", "1", "2", "3", "4", "5", "6", "7", "8", "9"}
    IN  parsed # NotParsed =>
           \/ /\ parsed.system = "proportional-representation"
              /\ NonEmptyText(parsed.area)
              /\ parsed.prefecture = Absent
              /\ parsed.number = Absent
           \/ /\ parsed.system = "single-seat"
              /\ parsed.area = Absent
              /\ NonEmptyText(parsed.prefecture)
              /\ parsed.number \in {Undefined, Absent} \/ DigitText(parsed.number)

\* C12 witness: a text with a line break before its trailing digit took the
\* verbatim rule, and a text with the marker took the proportional rule.
C12_Witness ==
    /\ parsed # NotParsed
    /\ \/ rawInfo = <<"a", "\n", "1">> /\ parsed.number = Absent
       \/ rawInfo = <<"UFF08", "U6BD4", "UFF09">> /\ parsed.area = Str(rawInfo)

\* the rule of the cascade an input falls under, the first that matches
CascadeRule(raw) ==
    LET isDigit(ch) == ch \in {"0", "1", "2", "3", "4", "5", "6", "7", "8", "9"}
        digits(t) == t # <<>> /\ \A k \in 1..Len(t) : isDigit(t[k])
        hasMark == \E k \in 1..Len(raw) :
                      \/ k + 2 <= Len(raw) /\ SubSeq(raw, k, k + 2) = <<"UFF08", "U6BD4", "UFF09">>
                      \/ k + 1 <= Len(raw) /\ SubSeq(raw, k, k + 1) = <<"U6BD4", "U4F8B">>
        startsWithPrefecture ==
            \E i \in 1..47 :
               /\ Len(raw) > Len(PREFECTURES[i])
               /\ SubSeq(raw, 1, Len(PREFECTURES[i])) = PREFECTURES[i]
               /\ digits(SubSeq(raw, Len(PREFECTURES[i]) + 1, Len(raw)))
    IN  IF raw = <<>> \/ raw = <<"U4E0D", "U660E">> THEN 1
        ELSE IF digits(raw) THEN 2
        ELSE IF hasMark THEN 3
        ELSE IF startsWithPrefecture THEN 4
        ELSE IF \E i \in 1..47 : PREFECTURES[i] = raw THEN 5
        ELSE IF isDigit(raw[Len(raw)]) /\ \A k \in 1..Len(raw) : raw[k] \notin {"\n", "\r"}
        THEN 6
        ELSE 7

C10_Witness ==
    /\ Len(PREFECTURES) = 47
    /\ rawInfo = PREFECTURES[47] \o <<"0", "7">>
    /\ parsed # NotParsed
    /\ parsed.number = Str(<<"0", "7">>)


(***************************************************************************)
(* extractMembersFromPage: text helpers.                                   *)
(***************************************************************************)
\* white space as String.prototype.trim and the regular expression's \s
\* see it (the characters that occur in the model's inputs)
WhiteSpace == {" ", "\t", "\n", "\r", "U00A0", "U3000"}

Trim(s) ==
    LET solid == {k \in 1..Len(s) : s[k] \notin WhiteSpace}
    IN  IF solid = {} THEN <<>>
        ELSE SubSeq(s, CHOOSE k \in solid : \A j \in solid : k <= j,
                       CHOOSE k \in solid : \A j \in solid : k >= j)

\* text.replace(/\s+/g, '')
RemoveWhiteSpace(s) == SelectSeq(s, LAMBDA c : c \notin WhiteSpace)

\* cleanName.split(/\s+/)
RECURSIVE SplitWhiteSpace(_)
SplitWhiteSpace(s) ==
    LET gaps == {k \in 1..Len(s) : s[k] \in WhiteSpace}
    IN  IF gaps = {} THEN <<s>>
        ELSE LET g == CHOOSE k \in gaps : \A j \in gaps : k <= j
                 after == {k \in (g + 1)..Len(s) : s[k] \notin WhiteSpace}
                 next == IF after = {} THEN Len(s) + 1
                         ELSE CHOOSE k \in after : \A j \in after : k <= j
             IN  <<SubSeq(s, 1, g - 1)>> \o SplitWhiteSpace(SubSeq(s, next, Len(s)))

\* parts.join(' ')
RECURSIVE JoinWithSpace(_)
JoinWithSpace(parts) ==
    IF parts = <<>> THEN <<>>
    ELSE IF Len(parts) = 1 THEN parts[1]
    ELSE parts[1] \o <<" ">> \o JoinWithSpace(Tail(parts))

HeaderKeywords ==
   <<
      <<"U6C0F", "U540D">>,
      <<"U8B70", "U54E1", "U6C0F", "U540D">>,
      <<"U3075", "U308A", "U304C", "U306A">>,
      <<"U30D5", "U30EA", "U30AC", "U30CA">>,
      <<"U8AAD", "U307F">>,
      <<"U3088", "U307F">>,
      <<"U4F1A", "U6D3E">>,
      <<"U9078", "U6319", "U533A">>,
      <<"U653F", "U515A">>,
      <<"U90FD", "U9053", "U5E9C", "U770C">>
   >>

PartyKeywords ==
   <<
      <<"U81EA", "U7531", "U6C11", "U4E3B", "U515A">>,
      <<"U7ACB", "U61B2", "U6C11", "U4E3B", "U515A">>,
      <<"U516C", "U660E", "U515A">>,
      <<"U65E5", "U672C", "U7DAD", "U65B0", "U306E", "U4F1A">>,
      <<"U65E5", "U672C", "U5171", "U7523", "U515A">>,
      <<"U56FD", "U6C11", "U6C11", "U4E3B", "U515A">>,
      <<"U308C", "U3044", "U308F", "U65B0", "U9078", "U7D44">>,
      <<"U793E", "U4F1A", "U6C11", "U4E3B", "U515A">>,
      <<"U7121", "U6240", "U5C5E">>,
      <<"U7121", "U4F1A", "U6D3E">>
   >>

IsHeaderKeyword(text) ==
    LET t == Trim(text)
    IN  Len(t) < 2 \/ \E i \in DOMAIN HeaderKeywords : StartsWith(t, HeaderKeywords[i])

IsPartyKeyword(text) ==
    LET t == Trim(text)
    IN  \E i \in DOMAIN PartyKeywords : Includes(t, PartyKeywords[i])

Honorific == "U541B"
\* name.replace(/HONORIFIC$/, '').trim()
CleanNameKeepingHonorific(name) == Trim(name)
CleanName(name) ==
    Trim(IF Len(name) >= 1 /\ name[Len(name)] = Honorific
         THEN SubSeq(name, 1, Len(name) - 1) ELSE name)

BaseUrl == <<"h", "t", "t", "p", "s", ":", "/", "/", "w", "w", "w", ".", "s", "h", "u", "g", "i", "i", "n", ".", "g", "o", ".", "j", "p">>
InternetPath == <<"/", "i", "n", "t", "e", "r", "n", "e", "t", "/">>
StaticsPath == <<"/", "i", "n", "t", "e", "r", "n", "e", "t", "/", "i", "t", "d", "b", "_", "a", "n", "n", "a", "i", ".", "n", "s", "f", "/", "h", "t", "m", "l", "/", "s", "t", "a", "t", "i", "c", "s", "/", "s", "y", "u", "/">>
FourUp == <<".", ".", "/", ".", ".", "/", ".", ".", "/", ".", ".", "/">>

\* /^(javascript|data):/i
HasUnsafeScheme(url) ==
    LET l == LowerText(url)
    IN  \/ StartsWith(l, <<"j", "a", "v", "a", "s", "c", "r", "i", "p", "t", ":">>)
        \/ StartsWith(l, <<"d", "a", "t", "a", ":">>)

\* relativeUrl.replace(/^\.\.\/+/, '')
RECURSIVE DropSlashes(_)
DropSlashes(s) == IF Len(s) >= 1 /\ s[1] = "/" THEN DropSlashes(Tail(s)) ELSE s

(***************************************************************************)
(* extractMembersFromPage.  A row is [link, href, cells]: whether the      *)
(* first cell holds an anchor, the anchor's href attribute (empty when it  *)
(* has none) and the texts of the row's cells; the anchor's text is the    *)
(* first cell's text.                                                      *)
(***************************************************************************)
BuildAbsoluteUrl(relativeUrl) ==
    IF IsHttpAbsolute(relativeUrl) THEN relativeUrl
    ELSE IF HasUnsafeScheme(relativeUrl) THEN <<>>
    ELSE IF StartsWith(relativeUrl, FourUp)
    THEN BaseUrl \o InternetPath \o SliceFrom(relativeUrl, Len(FourUp))
    ELSE IF StartsWith(relativeUrl, <<".", ".", "/">>)
    THEN BaseUrl \o InternetPath \o DropSlashes(SliceFrom(relativeUrl, 2))
    ELSE IF StartsWith(relativeUrl, <<"/">>)
    THEN BaseUrl \o relativeUrl
    ELSE BaseUrl \o StaticsPath \o relativeUrl

\* a known prefecture followed by digits only
IsPrefectureWithDistrict(text) == PrefectureWithDistrict(text) # 0

\* the first index in idx (ascending) that satisfies ok, 0 when none does
FirstIndex(idx, ok(_)) ==
    LET hits == {i \in idx : ok(i)}
    IN  IF hits = {} THEN 0 ELSE CHOOSE i \in hits : \A j \in hits : i <= j

\* the three district scans over the trimmed cell texts
DistrictOf(allCells) ==
    LET plain(i) == /\ allCells[i] # <<>>
                    /\ ~IsHeaderKeyword(allCells[i])
                    /\ ~IsPartyKeyword(allCells[i])
        first == FirstIndex(DOMAIN allCells,
                            LAMBDA i : plain(i) /\ IsPrefectureWithDistrict(allCells[i]))
        second == FirstIndex(DOMAIN allCells,
                             LAMBDA i : Includes(allCells[i], ProportionalMark))
        third == FirstIndex(3..Len(allCells),
                            LAMBDA i : /\ plain(i)
                                       /\ ~AllDigits(allCells[i])
                                       /\ \E q \in DOMAIN PREFECTURES :
                                             Includes(allCells[i], PREFECTURES[q]))
    IN  IF first # 0 THEN allCells[first]
        ELSE IF second # 0 THEN allCells[second]
        ELSE IF third # 0 THEN allCells[third]
        ELSE UnknownText

SenateMark == "U53C2"
\* text.replace(/\s+/g, '').match(/^(\d+)[FW(]MARK(\d+)[FW)]$/): the two digit
\* texts, or <<>> when the text has another shape
SenateMatch(text) ==
    LET t == RemoveWhiteSpace(text)
        other == {k \in 1..Len(t) : t[k] \notin Digits}
        open == IF other = {} THEN 0 ELSE CHOOSE k \in other : \A j \in other : k <= j
    IN  IF /\ open >= 2
           /\ Len(t) >= open + 3
           /\ t[open] \in {"UFF08", "("}
           /\ t[open + 1] = SenateMark
           /\ t[Len(t)] \in {"UFF09", ")"}
           /\ AllDigits(SubSeq(t, open + 2, Len(t) - 1))
        THEN <<SubSeq(t, 1, open - 1), SubSeq(t, open + 2, Len(t) - 1)>>
        ELSE <<>>

HouseOnly(house) == [house |-> house, hasSenate |-> FALSE, senate |-> 0]
HouseAndSenate(house, senate) == [house |-> house, hasSenate |-> TRUE, senate |-> senate]

\* `num >= 1 && num <= 25`
InCountRange(num) == num >= 1 /\ num <= 25

\* the cell decides the count: a compound text, or digits in range
CountCellLoose(text) == text # <<>> /\ (SenateMatch(text) # <<>> \/ AllDigits(text))
CountCell(text) ==
    /\ text # <<>>
    /\ \/ SenateMatch(text) # <<>>
       \/ AllDigits(text) /\ InCountRange(ParseInt(text))

\* the election count scan over the trimmed cell texts
ElectionCountOf(allCells) ==
    LET i == FirstIndex(DOMAIN allCells, LAMBDA k : CountCell(allCells[k]))
    IN  IF i = 0 THEN Absent
        ELSE LET m == SenateMatch(allCells[i])
             IN  IF m # <<>> THEN HouseAndSenate(ParseInt(m[1]), ParseInt(m[2]))
                 ELSE HouseOnly(ParseInt(allCells[i]))

\* the first party keyword text among the third to fifth cells
PartyOf(allCells) ==
    LET i == FirstIndex(3..Min(5, Len(allCells)),
                        LAMBDA k : /\ allCells[k] # <<>>
                                   /\ ~IsHeaderKeyword(allCells[k])
                                   /\ IsPartyKeyword(allCells[k]))
    IN  IF i = 0 THEN UnknownText ELSE allCells[i]

NameOf(full, last, first) == [full |-> full, last |-> last, first |-> first]

RawMemberData(name, party, prefecture, furigana, profileUrl, electionCount) ==
    [name |-> name, party |-> party, prefecture |-> prefecture,
     furigana |-> furigana, profileUrl |-> profileUrl,
     electionCount |-> electionCount]

\* the name a row is known by, <<>> when the row is skipped before the
\* duplicate check
RowName(row) ==
    LET name == Trim(row.cells[1])
    IN  IF Len(row.cells) < 3 \/ name = <<>> \/ IsHeaderKeyword(name)
        THEN <<>> ELSE CleanName(name)

\* the record a row yields once it has passed the duplicate check
RowMember(row) ==
    LET cleanName == RowName(row)
        href == IF row.link THEN Trim(row.href) ELSE <<>>
        profileUrl == IF href # <<>> THEN BuildAbsoluteUrl(href) ELSE <<>>
        furigana == Trim(row.cells[2])
        allCells == [i \in DOMAIN row.cells |-> Trim(row.cells[i])]
        nameParts == SplitWhiteSpace(cleanName)
    IN  RawMemberData(NameOf(cleanName, nameParts[1], JoinWithSpace(Tail(nameParts))),
                      PartyOf(allCells),
                      DistrictOf(allCells),
                      IF furigana # <<>> /\ ~IsHeaderKeyword(furigana)
                      THEN Str(furigana) ELSE Absent,
                      IF profileUrl # <<>> THEN Str(profileUrl) ELSE Absent,
                      ElectionCountOf(allCells))

\* `const seenMembers = new Set<string>()`: what a call knows of earlier calls
SeenMembersKept(earlier) == earlier
SeenMembersAtStart(earlier) == {}

RECURSIVE ExtractRows(_, _)
ExtractRows(rows, seenMembers) ==
    IF rows = <<>> THEN <<>>
    ELSE LET row == Head(rows)
             skipped == Len(row.cells) < 3 \/ Trim(row.cells[1]) = <<>>
                        \/ IsHeaderKeyword(Trim(row.cells[1]))
         IN  IF skipped \/ RowName(row) \in seenMembers
             THEN ExtractRows(Tail(rows), seenMembers)
             ELSE <<RowMember(row)>>
                  \o ExtractRows(Tail(rows), seenMembers \cup {RowName(row)})

\* earlier: the names extracted by earlier calls on the same scraper
ExtractMembersFromPage(rows, earlier) == ExtractRows(rows, SeenMembersAtStart(earlier))

\* validateMemberData
ValidateMemberData(member) ==
    /\ member.name.full # <<>>
    /\ Len(Trim(member.name.full)) >= 2
    /\ member.party # <<>>
    /\ member.prefecture # <<>>

\* furigana.replace(/\n/g, ' ').replace(/U+3000/g, ' ').replace(/\s+/g, ' ').trim()
NormalizeFurigana(furigana) ==
    IF Trim(furigana) = <<>> THEN <<>>
    ELSE JoinWithSpace(SplitWhiteSpace(Trim(furigana)))

\* the member object scrapeAllPages builds from a validated raw record
ProcessedMember(member) ==
    LET electionInfo == ParseElectionInfo(member.prefecture)
    IN  [name |-> member.name.full,
         party |-> member.party,
         election |-> [system |-> electionInfo.system,
                       prefecture |-> electionInfo.prefecture,
                       number |-> electionInfo.number,
                       area |-> electionInfo.area],
         furigana |-> IF member.furigana # Absent
                      THEN Str(NormalizeFurigana(member.furigana.v)) ELSE Absent,
         profileUrl |-> member.profileUrl,
         electionCount |-> IF member.electionCount # Absent
                           THEN member.electionCount
                           ELSE electionInfo.electionCount]

\* the inner loop of scrapeAllPages over one page's raw records
ProcessPage(raw) ==
    LET valid == SelectSeq(raw, ValidateMemberData)
    IN  [k \in DOMAIN valid |-> ProcessedMember(valid[k])]

(***************************************************************************)
(* Table rows.                                                             *)
(***************************************************************************)
Row(link, href, cells) == [link |-> link, href |-> href, cells |-> cells]

Yamada == <<"U5C71", "U7530">>
Suzuki == <<"U9234", "U6728">>
Taro == <<"U592A", "U90CE">>
Kana == <<"U3084", "U307E", "U3060">>
Ldp == PartyKeywords[1]
TokyoOne == Tokyo \o <<"1">>
TokyoBlock == ProportionalMark \o Tokyo

JavascriptUrl == <<"j", "a", "v", "a", "s", "c", "r", "i", "p", "t", ":", "x">>
DataUrl == <<"D", "A", "T", "A", ":", "x">>
MailtoUrl == <<"m", "a", "i", "l", "t", "o", ":", "a">>
FileUrl == <<"f", "i", "l", "e", ":", "/", "/", "/", "a">>
UpperHttpUrl == <<"H", "T", "T", "P", ":", "/", "/", "a">>
ParentUrl == <<".", ".", "/", "/", "a">>
RootUrl == <<"/", "a">>
BareUrl == <<"a", ".", "h", "t", "m">>

Hrefs == {NoUrl, PlainUrl(1), UpperHttpUrl, JavascriptUrl, DataUrl, FtpUrl, MailtoUrl,
          FileUrl, ParentUrl, FourUp \o <<"a">>, RootUrl, BareUrl,
          <<" ">> \o FtpUrl \o <<" ">>}

RowNames == {Yamada, Yamada \o <<Honorific>>, Suzuki \o <<Honorific>>,
             Yamada \o <<" ">> \o Taro \o <<Honorific>>,
             <<" ">> \o Yamada \o <<"\n">>, <<"U5C71", Honorific>>,
             HeaderKeywords[1], <<"U5C71">>, <<>>}

Compound(house, senate) == house \o <<"UFF08", SenateMark>> \o senate \o <<"UFF09">>

CountTexts == {<<"5">>, <<"0", "5">>, <<"0", "1">>, <<"0">>, <<"2", "6">>, <<"2", "5">>,
               <<"1">>, <<"a", "b", "c">>, <<"1", ".", "5">>, <<"2", "0", "2", "4">>,
               Compound(<<"3">>, <<"2">>), Compound(<<"2", "6">>, <<"0">>),
               Compound(<<>>, <<"2">>), Compound(<<"3">>, <<>>),
               <<"3", "(", SenateMark, "2", ")">>,
               <<"3", " ", "UFF08", SenateMark, " ", "2", "UFF09">>,
               Compound(<<"3">>, <<"2">>) \o <<"a">>}

DistrictTexts == {TokyoOne, Tokyo, TokyoBlock, UnknownText, <<>>,
                  <<"a">> \o TokyoOne, TokyoOne \o <<"a">>}

MemberRow(name, href, district, count) ==
    Row(TRUE, href, <<name, Kana, Ldp, district, count>>)

\* rows that differ from an ordinary member row in one place
VariedRows ==
    {MemberRow(Yamada \o <<Honorific>>, h, TokyoOne, <<"5">>) : h \in Hrefs}
    \cup {MemberRow(n, PlainUrl(1), TokyoOne, <<"5">>) : n \in RowNames}
    \cup {MemberRow(Yamada, PlainUrl(1), d, <<"5">>) : d \in DistrictTexts}
    \cup {MemberRow(Yamada, PlainUrl(1), TokyoOne, c) : c \in CountTexts}
    \cup {Row(FALSE, PlainUrl(1), <<Yamada, HeaderKeywords[3], UnknownText>>),
          Row(TRUE, PlainUrl(1), <<Yamada, Kana>>),
          Row(FALSE, NoUrl, <<Yamada, <<"U3084", "U307E", "U3000", "\n", "U3060">>,
                              <<"5">>, Compound(<<"3">>, <<"2">>), <<"7">>>>),
          Row(FALSE, NoUrl, <<Yamada, Kana, <<"a", "b", "c">>, <<"5", "0">>, <<"5">>>>),
          Row(FALSE, NoUrl, <<Yamada, Kana, <<"2", "6">>, Tokyo, Ldp,
                              Compound(<<"3">>, <<"2">>)>>)}

\* rows of one page that may name the same member more than once
NamedRows ==
    {MemberRow(n, PlainUrl(1), TokyoOne, <<"5">>) :
        n \in {Yamada, Yamada \o <<Honorific>>, Suzuki \o <<Honorific>>,
               HeaderKeywords[1]}}
    \cup {MemberRow(Yamada \o <<Honorific>>, NoUrl, TokyoBlock, <<"7">>)}

MaxRows == 3
ExtractPages ==
    {<<r>> : r \in VariedRows} \cup UNION {[1..n -> NamedRows] : n \in 0..MaxRows}

NamesOf(raw) == {raw[k].name.full : k \in DOMAIN raw}

(***************************************************************************)
(* The extractor on its own: a page's rows are handed to it twice.         *)
(***************************************************************************)
Extract ==
    /\ lsPc = "page"
    /\ rawMemberData' = ExtractMembersFromPage(pageRows, {})
    /\ lsPc' = "extracted"
    /\ UNCHANGED <<pageIndex, pageRows, rawAgain, processedMembers>>
    /\ UNCHANGED <<schedVars, cacheVars, classVars, lifeVars>>

ExtractAgain ==
    /\ lsPc = "extracted"
    /\ rawAgain' = ExtractMembersFromPage(pageRows, NamesOf(rawMemberData))
    /\ lsPc' = "repeated"
    /\ UNCHANGED <<pageIndex, pageRows, rawMemberData, processedMembers>>
    /\ UNCHANGED <<schedVars, cacheVars, classVars, lifeVars>>

InitExtract ==
    /\ SchedInit /\ CacheIdle /\ ClassIdle
    /\ lsPc = "page"
    /\ pageIndex = 0
    /\ pageRows \in ExtractPages
    /\ rawMemberData = <<>>
    /\ rawAgain = <<>>
    /\ processedMembers = <<>>

NextExtract == Extract \/ ExtractAgain

SpecExtract == InitExtract /\ [][NextExtract]_vars

(***************************************************************************)
(* Claims about the row extractor.                                         *)
(***************************************************************************)
Extracted == lsPc \in {"extracted", "repeated"}

\* a name without its surrounding white space and trailing honorific
StrippedName(text) ==
    LET t == Trim(text)
    IN  Trim(IF t # <<>> /\ t[Len(t)] = Honorific THEN SubSeq(t, 1, Len(t) - 1) ELSE t)

\* the rows that carry a usable name: three cells or more, a name that is
\* neither empty nor a header word
Usable(row) ==
    /\ Len(row.cells) >= 3
    /\ Trim(row.cells[1]) # <<>>
    /\ ~IsHeaderKeyword(Trim(row.cells[1]))

\* the first usable row of the page that carries the k-th record's name
SourceRow(k) ==
    LET same == {j \in DOMAIN pageRows :
                    /\ Usable(pageRows[j])
                    /\ StrippedName(pageRows[j].cells[1]) = rawMemberData[k].name.full}
    IN  pageRows[CHOOSE j \in same : \A i \in same : j <= i]

TrimmedCells(row) == [i \in DOMAIN row.cells |-> Trim(row.cells[i])]

\* digits, an opening parenthesis of either width, the senate mark, digits, a
\* closing parenthesis of either width; white space inside is ignored
CompoundSplits(text) ==
    LET t == SelectSeq(text, LAMBDA c : c \notin WhiteSpace)
    IN  {a \in 1..(Len(t) - 4) :
           /\ \A k \in 1..a : t[k] \in Digits
           /\ t[a + 1] \in {"UFF08", "("}
           /\ t[a + 2] = SenateMark
           /\ \A k \in (a + 3)..(Len(t) - 1) : t[k] \in Digits
           /\ t[Len(t)] \in {"UFF09", ")"}}
IsCompound(text) == CompoundSplits(text) # {}
\* the house and senate numbers a compound text states
CompoundCount(text) ==
    LET t == SelectSeq(text, LAMBDA c : c \notin WhiteSpace)
        a == CHOOSE a \in CompoundSplits(text) : TRUE
    IN  HouseAndSenate(ParseInt(SubSeq(t, 1, a)), ParseInt(SubSeq(t, a + 3, Len(t) - 1)))

IsBareCount(text) ==
    /\ text # <<>>
    /\ \A k \in 1..Len(text) : text[k] \in Digits
    /\ ParseInt(text) \in 1..25

C15_NoLeadingZero ==
    Extracted =>
        \A k \in DOMAIN rawMemberData :
            LET cells == TrimmedCells(SourceRow(k))
                got == rawMemberData[k].electionCount
            IN  (got # Absent /\ ~got.hasSenate) =>
                    \E i \in DOMAIN cells :
                        /\ IsBareCount(cells[i])
                        /\ cells[i][1] # "0"
                        /\ ParseInt(cells[i]) = got.house

\* C16: the records of one page have pairwise different names once the
\* trailing honorific is stripped, every usable row's name is among them, and
\* a record carries the fields of the first row with its name.
C16_DedupWithinPage ==
    Extracted =>
        /\ \A k, l \in DOMAIN rawMemberData :
              StrippedName(rawMemberData[k].name.full)
                 = StrippedName(rawMemberData[l].name.full) => k = l
        /\ \A j \in DOMAIN pageRows :
              Usable(pageRows[j]) =>
                 \E k \in DOMAIN rawMemberData :
                    rawMemberData[k].name.full = StrippedName(pageRows[j].cells[1])
        /\ \A k \in DOMAIN rawMemberData :
              LET row == SourceRow(k)
              IN  /\ rawMemberData[k].prefecture = DistrictOf(TrimmedCells(row))
                  /\ rawMemberData[k].party = PartyOf(TrimmedCells(row))
                  /\ rawMemberData[k].electionCount = ElectionCountOf(TrimmedCells(row))
                  /\ rawMemberData[k].profileUrl =
                        IF /\ row.link
                           /\ Trim(row.href) # <<>>
                           /\ BuildAbsoluteUrl(Trim(row.href)) # <<>>
                        THEN Str(BuildAbsoluteUrl(Trim(row.href))) ELSE Absent

C16_Witness ==
    /\ Extracted
    /\ Len(pageRows) = 3
    /\ pageRows[1].cells[1] = Yamada \o <<Honorific>>
    /\ pageRows[1].href = NoUrl
    /\ pageRows[2].cells[1] = Yamada
    /\ pageRows[3].cells[1] = Suzuki \o <<Honorific>>
    /\ Len(rawMemberData) = 2
    /\ rawMemberData[1].profileUrl = Absent
    /\ rawMemberData[2].name.full = Suzuki

\* C18: a record whose anchor's href carries a javascript: or data: scheme,
\* or is an absolute URL of another scheme than http and https (ftp:, file:,
\* mailto:), has no profileUrl.
C18_ForeignSchemesRejected ==
    Extracted =>
        \A k \in DOMAIN rawMemberData :
            LET href == LowerText(Trim(SourceRow(k).href))
            IN  (\E scheme \in {<<"j", "a", "v", "a", "s", "c", "r", "i", "p", "t", ":">>,
                                <<"d", "a", "t", "a", ":">>,
                                <<"f", "t", "p", ":">>,
                                <<"f", "i", "l", "e", ":">>,
                                <<"m", "a", "i", "l", "t", "o", ":">>} :
                    StartsWith(href, scheme))
                => rawMemberData[k].profileUrl = Absent

MaxPages == 2
MaxRunRows == 2

\* rows the syllabary pages of a run may show
RunRows ==
    {MemberRow(Yamada \o <<Honorific>>, PlainUrl(1), TokyoOne, <<"5">>),
     MemberRow(Yamada, NoUrl, TokyoBlock, Compound(<<"2", "6">>, <<"0">>)),
     MemberRow(Suzuki \o <<Honorific>>, RootUrl, UnknownText, <<"a", "b", "c">>),
     MemberRow(<<"U5C71", Honorific>>, NoUrl, TokyoOne, <<"2", "5">>),
     Row(TRUE, PlainUrl(1), <<Yamada \o <<Honorific>>, Kana>>)}

RunPages == UNION {[1..n -> RunRows] : n \in 0..MaxRunRows}

CallScrapeAllPages ==
    /\ lsPc = "idle"
    /\ lsPc' = IF browser = "null" THEN "threw" ELSE "opening"
    /\ pageIndex' = 0
    /\ processedMembers' = <<>>
    /\ UNCHANGED <<pageRows, rawMemberData, rawAgain>>
    /\ UNCHANGED <<schedVars, cacheVars, classVars, lifeVars>>

\* `await this.browser.newPage()` resolves
ListPageOpens ==
    /\ lsPc = "opening"
    /\ lsPc' = "scraping"
    /\ UNCHANGED <<pageIndex, pageRows, rawMemberData, rawAgain, processedMembers>>
    /\ UNCHANGED <<schedVars, cacheVars, classVars, lifeVars>>

\* it rejects: the call throws before the try block
ListPageRefused ==
    /\ lsPc = "opening"
    /\ lsPc' = "threw"
    /\ UNCHANGED <<pageIndex, pageRows, rawMemberData, rawAgain, processedMembers>>
    /\ UNCHANGED <<schedVars, cacheVars, classVars, lifeVars>>

\* one turn of the loop over the pages: goto, waitForSelector, the extractor
\* and the loop over the raw records; after the last page the summary and
\* the check for an empty list
PageScraped(rows) ==
    /\ lsPc = "scraping"
    /\ pageIndex < MaxPages
    /\ LET raw == ExtractMembersFromPage(rows, {processedMembers[k].name :
                                                   k \in DOMAIN processedMembers})
           all == processedMembers \o ProcessPage(raw)
       IN  /\ pageRows' = rows
           /\ rawMemberData' = raw
           /\ processedMembers' = all
           /\ pageIndex' = pageIndex + 1
           /\ lsPc' = IF pageIndex + 1 < MaxPages THEN "scraping"
                      ELSE IF Len(all) = 0 THEN "closingNoMembers"
                      ELSE "closing"
    /\ UNCHANGED rawAgain
    /\ UNCHANGED <<schedVars, cacheVars, classVars, lifeVars>>

\* page.goto rejects: the outer catch rethrows
PageFails ==
    /\ lsPc = "scraping"
    /\ pageIndex < MaxPages
    /\ lsPc' = "closingAfterError"
    /\ UNCHANGED <<pageIndex, pageRows, rawMemberData, rawAgain, processedMembers>>
    /\ UNCHANGED <<schedVars, cacheVars, classVars, lifeVars>>

\* the page loads but shows no table (or a table without a box):
\* page.waitForSelector('table', {timeout}) rejects after the timeout and
\* the outer catch rethrows
PageHasNoTable ==
    /\ lsPc = "scraping"
    /\ pageIndex < MaxPages
    /\ lsPc' = "closingNoTable"
    /\ UNCHANGED <<pageIndex, pageRows, rawMemberData, rawAgain, processedMembers>>
    /\ UNCHANGED <<schedVars, cacheVars, classVars, lifeVars>>

\* the try block was left by an exception and the finally block runs
ClosingAfterThrow == {"closingAfterError", "closingNoTable", "closingNoMembers"}

\* finally: `await page.close()` resolves
ListPageCloses ==
    /\ lsPc \in {"closing"} \cup ClosingAfterThrow
    /\ lsPc' = IF lsPc = "closing" THEN "returned" ELSE "threw"
    /\ UNCHANGED <<pageIndex, pageRows, rawMemberData, rawAgain, processedMembers>>
    /\ UNCHANGED <<schedVars, cacheVars, classVars, lifeVars>>

\* it rejects
ListPageCloseFails ==
    /\ lsPc \in {"closing"} \cup ClosingAfterThrow
    /\ lsPc' = "threw"
    /\ UNCHANGED <<pageIndex, pageRows, rawMemberData, rawAgain, processedMembers>>
    /\ UNCHANGED <<schedVars, cacheVars, classVars, lifeVars>>

InitList == SchedInit /\ CacheIdle /\ ClassIdle /\ ListIdle

NextList ==
    \/ Initialize
    \/ CallScrapeAllPages
    \/ ListPageOpens
    \/ ListPageRefused
    \/ \E rows \in RunPages : PageScraped(rows)
    \/ PageFails
    \/ PageHasNoTable
    \/ ListPageCloses
    \/ ListPageCloseFails

SpecList == InitList /\ [][NextList]_vars

\* the numbers an election count states
CountComponents(count) ==
    IF "house" \in DOMAIN count
    THEN {count.house} \cup (IF count.hasSenate THEN {count.senate} ELSE {})
    ELSE IF count.t = "num" THEN {count.tenths \div 10}
    ELSE {}

\* C13: every number of the election count of every member of the returned
\* list is at least 1 and at most 25.
C13_CountsInRange ==
    lsPc = "returned" =>
        \A k \in DOMAIN processedMembers :
            \A n \in CountComponents(processedMembers[k].electionCount) : n \in 1..25

\* C17: no two members of the list scrapeAllPages returns have the same
\* name, also when the name stood on two different pages.
C17_NamesUniqueInRun ==
    lsPc = "returned" =>
        \A k, l \in DOMAIN processedMembers :
            processedMembers[k].name = processedMembers[l].name => k = l

\* C28: a list page without a usable table (an empty table, no table, only
\* rows of fewer than 3 cells) raises no error and the loop goes on to the
\* remaining pages; the list scrape leaves its try block by an exception for
\* the shape of the pages only after the last page, when no member was
\* produced on any page (the "No valid members were scraped" error), and it
\* returns only with at least one member.
C28_ShapeErrorsNotFatal ==
    /\ lsPc # "closingNoTable"
    /\ lsPc = "closingNoMembers" => pageIndex = MaxPages /\ processedMembers = <<>>
    /\ lsPc \in {"closing", "returned"} => processedMembers # <<>>

(***************************************************************************)
(* scrapeMultipleProfiles over profile pages that may also be empty.       *)
(***************************************************************************)
MaxProfileMembers == 2
ProfileLists == UNION {MemberListsOfLen(n) : n \in 0..MaxProfileMembers}
\* a page whose body holds no text, besides the kinds above
ProfilePageKinds == PageKinds \cup {"empty"}

NextProfiles ==
    \/ Initialize
    \/ /\ wpPc = "idle" /\ smpPc = "idle"
       /\ \E list \in ProfileLists, rawC \in {Undefined, Whole(1)},
             rawD \in {Whole(0), Whole(500)} :
             CallScrapeMultipleProfiles(list, rawC, rawD)
    \/ \E k \in DOMAIN tasks : NewPageResolves(k)
    \/ \E k \in DOMAIN tasks : NewPageRejects(k)
    \/ \E k \in DOMAIN tasks : GotoResolves(k)
    \/ \E k \in DOMAIN tasks : GotoRejects(k)
    \/ \E k \in DOMAIN tasks, kind \in ProfilePageKinds : ExtractReturns(k, kind)
    \/ \E k \in DOMAIN tasks : CloseResolves(k)
    \/ \E k \in DOMAIN tasks : CloseRejects(k)
    \/ BatchJoin
    \/ TimerFires

SpecProfiles == Init /\ [][NextProfiles]_vars

\* C20: a profile page on which every probe finds nothing gives no profile:
\* no fetch returns, and no member carries, a profile object without a
\* populated field, and such a fetch is not counted as a success.
C20_EmptyProfileCollapses ==
    /\ \A k \in DOMAIN tasks :
          tasks[k].result \notin {Null, Undefined} => tasks[k].result.populated # {}
    /\ \A k \in DOMAIN members :
          members[k].profile \notin {Null, Undefined} => members[k].profile.populated # {}
    /\ successCount <= Cardinality({k \in DOMAIN members :
                                       /\ members[k].profile \notin {Null, Undefined}
                                       /\ members[k].profile.populated # {}})

(***************************************************************************)
(* scrapeMultipleProfiles with every kind of option value, under the       *)
(* scheduling of the event loop: a pending browser operation of a task     *)
(* settles (page.goto has a timeout), the continuation of a fulfilled      *)
(* Promise.all runs, and a timer that was set fires.                       *)
(***************************************************************************)
MaxTerminateMembers == 3
TerminateLists == UNION {MemberListsOfLen(n) : n \in 0..MaxTerminateMembers}
\* besides the values above: a text that is no number, and a very large one
TerminateConcurrency == RawConcurrency \cup {Str(<<"a">>), Whole(1000)}
TerminateDelay == RawDelay \cup {Undefined}

TaskSteps ==
    \/ \E k \in DOMAIN tasks : NewPageResolves(k)
    \/ \E k \in DOMAIN tasks : NewPageRejects(k)
    \/ \E k \in DOMAIN tasks : GotoResolves(k)
    \/ \E k \in DOMAIN tasks : GotoRejects(k)
    \/ \E k \in DOMAIN tasks, kind \in PageKinds : ExtractReturns(k, kind)
    \/ \E k \in DOMAIN tasks : CloseResolves(k)
    \/ \E k \in DOMAIN tasks : CloseRejects(k)

NextTerminate ==
    \/ Initialize
    \/ /\ wpPc = "idle" /\ smpPc = "idle"
       /\ \E list \in TerminateLists, rawC \in TerminateConcurrency,
             rawD \in TerminateDelay :
             CallScrapeMultipleProfiles(list, rawC, rawD)
    \/ TaskSteps
    \/ BatchJoin
    \/ TimerFires

SpecTerminate ==
    /\ Init
    /\ [][NextTerminate]_vars
    /\ WF_vars(TaskSteps)
    /\ WF_vars(BatchJoin)
    /\ WF_vars(TimerFires)

\* C29: whatever the maxConcurrent and delay options were, the batch size
\* of a call is an integer of at least 1 and the delay an integer of at
\* least 0; the batch index moves only forward, by the batch size; and a
\* call that waits for a batch or for the delay eventually ends (it returns,
\* or it throws when a task rejected).
C29_Terminates ==
    /\ [](maxConcurrent \in Nat /\ maxConcurrent >= 1 /\ delay \in Nat)
    /\ [][loopI' # loopI => loopI' = loopI + maxConcurrent]_vars
    /\ (smpPc \in {"awaitAll", "delay"} ~> smpPc \in {"done", "threwTask"})

\* C29 witness: three URL-bearing members in batches of 2 with a delay: the
\* call has returned after two batches, the index having gone 0, 2, 4.
C29_Witness ==
    /\ smpPc = "done"
    /\ Len(mwp) = 3 /\ maxConcurrent = 2 /\ delay = 500
    /\ loopI = 4 /\ delayWaits = 1
    /\ \A k \in DOMAIN tasks : tasks[k].st = "settled"

(***************************************************************************)
(* scrapeHouseOfRepresentativesWithProfiles with the list scrape unfolded: *)
(* `const result = await this.scrapeAllPages()` runs scrapeAllPages step   *)
(* by step, and the rest of the function goes on when that promise has     *)
(* settled.                                                                *)
(***************************************************************************)
MaxPhaseRows == 1

PhaseRows ==
    {MemberRow(Yamada \o <<Honorific>>, PlainUrl(1), TokyoOne, <<"5">>),
     MemberRow(Suzuki \o <<Honorific>>, RootUrl, UnknownText, <<"3">>),
     MemberRow(<<"U5C71", Honorific>>, NoUrl, TokyoOne, <<"2">>)}
PhasePages == UNION {[1..n -> PhaseRows] : n \in 0..MaxPhaseRows}
PhaseOptions ==
    [includeProfiles : BOOLEAN, maxConcurrentProfiles : {Undefined, Whole(1)},
     profileDelay : {Undefined, Whole(0)}, maxProfiles : {Undefined, Whole(1)}]

\* the call, up to the first suspension of scrapeAllPages
CallWithProfilesUnfolded(opts) ==
    /\ wpPc = "idle" /\ smpPc = "idle" /\ lsPc = "idle"
    /\ wpPc' = "listing"
    /\ wpOpts' = opts
    /\ lsPc' = IF browser = "null" THEN "threw" ELSE "opening"
    /\ pageIndex' = 0
    /\ processedMembers' = <<>>
    /\ UNCHANGED <<pageRows, rawMemberData, rawAgain>>
    /\ UNCHANGED <<browser, ownsBrowser, members, listResult, returned, smpPc,
                   maxConcurrent, delay, mwp, loopI, tasks, pages, gotos,
                   completedCount, successCount, delayWaits, waitedMs>>
    /\ UNCHANGED <<cacheVars, classVars, lifeVars>>

\* the promise of scrapeAllPages is fulfilled once its finally block, which
\* closes the list page, has run
ListScrapeFulfilledBeforeClose(pc) == pc \in {"closing", "returned"}

ListScrapeFulfilled(pc) == pc = "returned"

\* result.members, as the enrichment sees them
ResultMembers ==
    [k \in DOMAIN processedMembers |->
        Member(k, IF processedMembers[k].profileUrl = Absent THEN NoUrl
                  ELSE processedMembers[k].profileUrl.v)]

\* the await of the list scrape resumes with its result
ListAwaitResumes ==
    /\ ListScrapeFulfilled(lsPc)
    /\ ListScrapeSucceeds(ResultMembers)

\* the await of the list scrape throws: the call rejects
ListAwaitThrows ==
    /\ lsPc = "threw"
    /\ ListScrapeFails

NextPhases ==
    \/ Initialize
    \/ \E opts \in PhaseOptions : CallWithProfilesUnfolded(opts)
    \/ ListPageOpens
    \/ ListPageRefused
    \/ \E rows \in PhasePages : PageScraped(rows)
    \/ PageFails
    \/ PageHasNoTable
    \/ ListPageCloses
    \/ ListPageCloseFails
    \/ ListAwaitResumes
    \/ ListAwaitThrows
    \/ TaskSteps
    \/ BatchJoin
    \/ TimerFires

SpecPhases == Init /\ [][NextPhases]_vars

\* C25: in scrapeHouseOfRepresentativesWithProfiles a fetch task has started
\* only when the list scrape has returned, with its page closed; while the
\* list page is being opened, scraped or closed no task has started and no
\* profile page is open; and when the list scrape threw, no task ever starts
\* and the call throws.
C25_PhaseOrdering ==
    /\ (\E k \in DOMAIN tasks : tasks[k].st # "idle") => lsPc = "returned"
    /\ smpPc # "idle" => lsPc = "returned"
    /\ lsPc \in {"opening", "scraping", "closing"} \cup ClosingAfterThrow
          => /\ wpPc = "listing"
             /\ \A k \in DOMAIN tasks : tasks[k].st = "idle" /\ pages[k] = "none"
    /\ lsPc = "threw"
          => /\ wpPc \in {"listing", "threw"}
             /\ tasks = <<>> /\ smpPc = "idle"

\* C25 witness: two pages gave two members with profile URLs, the list page
\* is closed, and the first fetch task is now navigating.
C25_Witness ==
    /\ lsPc = "returned" /\ pageIndex = MaxPages
    /\ Len(processedMembers) = 2
    /\ wpPc = "enriching"
    /\ tasks[1].st = "navigating" /\ pages[1] = "open"

(***************************************************************************)
(* The browser of a scraper: initialize, useBrowser, close,                *)
(* forceCloseBrowserForTest, newPage and the guard of scrapeAllPages.      *)
(* The calls follow one another; a call that awaits the launch or the      *)
(* closing of a browser ends when that promise settles.  life.launched are *)
(* the browsers this scraper launched, life.closed those on which it       *)
(* called close(), life.released those it let go of without closing.       *)
(***************************************************************************)
MaxLaunches == 2

LaunchedIds == <<"launched1", "launched2", "launched3", "launched4">>
InjectedBrowsers == {"injected1", "injected2"}

\* what the list pages show while the browser's lifecycle is exercised
BrowserPages == {<<>>, <<MemberRow(Yamada \o <<Honorific>>, PlainUrl(1), TokyoOne, <<"5">>)>>}

LifeFrame == UNCHANGED <<members, listResult, wpPc, returned, smpPc, maxConcurrent,
                         delay, mwp, loopI, tasks, pages, gotos, completedCount,
                         successCount, delayWaits, waitedMs, wpOpts, cacheVars,
                         classVars, listVars>>

\* no other call of the scraper is in progress
Quiet == life.pc = "idle" /\ lsPc \in {"idle", "returned", "threw"}

Returned(op) == [op |-> op, outcome |-> "returned"]
Threw(op, error) == [op |-> op, outcome |-> error]

\* what the scraper lets go of when this.browser is overwritten
Dropped(b) == IF b = "null" THEN {} ELSE {b}

\* initialize(): `if (this.browser) return`, else chromium.launch is awaited
InitializeCalled ==
    /\ Quiet
    /\ Cardinality(life.launched) < MaxLaunches
    /\ life' = IF browser # "null"
               THEN [life EXCEPT !.last = Returned("initialize")]
               ELSE [life EXCEPT !.pc = "launching", !.op = "initialize"]
    /\ UNCHANGED <<browser, ownsBrowser>>
    /\ LifeFrame

\* the launch resolves: `this.browser = ...; this.ownsBrowser = true`
LaunchResolves ==
    /\ life.pc = "launching"
    /\ LET b == LaunchedIds[Cardinality(life.launched) + 1]
       IN  /\ browser' = b
           /\ ownsBrowser' = TRUE
           /\ life' = [life EXCEPT !.pc = "idle", !.op = "none",
                                   !.last = Returned("initialize"),
                                   !.launched = @ \cup {b},
                                   !.released = @ \cup Dropped(browser)]
    /\ LifeFrame

\* the launch rejects and so does initialize()
LaunchRejects ==
    /\ life.pc = "launching"
    /\ life' = [life EXCEPT !.pc = "idle", !.op = "none",
                            !.last = Threw("initialize", "launchFailed")]
    /\ UNCHANGED <<browser, ownsBrowser>>
    /\ LifeFrame

\* useBrowser(b): synchronous
UseBrowser(b) ==
    /\ Quiet
    /\ browser' = b
    /\ ownsBrowser' = FALSE
    /\ life' = [life EXCEPT !.last = Returned("useBrowser"),
                            !.released = @ \cup (Dropped(browser) \ {b})]
    /\ LifeFrame

\* `if (this.browser && this.ownsBrowser)`
ShouldCloseAnyBrowser(b, owns) == b # "null"

ShouldClose(b, owns) == b # "null" /\ owns

\* close() and forceCloseBrowserForTest(), which have the same body: the
\* browser's close() is awaited, or this.browser is set to null at once
CloseCalled(op) ==
    /\ Quiet
    /\ IF ShouldClose(browser, ownsBrowser)
       THEN /\ life' = [life EXCEPT !.pc = "closing", !.op = op,
                                    !.closed = @ \cup {browser}]
            /\ browser' = browser
       ELSE /\ life' = [life EXCEPT !.last = Returned(op),
                                    !.released = @ \cup Dropped(browser)]
            /\ browser' = "null"
    /\ UNCHANGED ownsBrowser
    /\ LifeFrame

\* browser.close() resolves: `this.browser = null`
BrowserCloseResolves ==
    /\ life.pc = "closing"
    /\ browser' = "null"
    /\ life' = [life EXCEPT !.pc = "idle", !.op = "none",
                            !.last = Returned(life.op)]
    /\ UNCHANGED ownsBrowser
    /\ LifeFrame

\* browser.close() rejects: the call rejects before this.browser is reset
BrowserCloseRejects ==
    /\ life.pc = "closing"
    /\ life' = [life EXCEPT !.pc = "idle", !.op = "none",
                            !.last = Threw(life.op, "closeFailed")]
    /\ UNCHANGED <<browser, ownsBrowser>>
    /\ LifeFrame

\* newPage(): throws without a browser, else hands on to the browser
NewPage ==
    /\ Quiet
    /\ life' = [life EXCEPT !.last = IF browser = "null"
                                     THEN Threw("newPage", "notInitialized")
                                     ELSE Returned("newPage")]
    /\ life' # life
    /\ UNCHANGED <<browser, ownsBrowser>>
    /\ LifeFrame

NextBrowser ==
    \/ InitializeCalled
    \/ LaunchResolves
    \/ LaunchRejects
    \/ \E b \in InjectedBrowsers : UseBrowser(b)
    \/ \E op \in {"close", "forceCloseBrowserForTest"} : CloseCalled(op)
    \/ BrowserCloseResolves
    \/ BrowserCloseRejects
    \/ NewPage
    \/ (life.pc = "idle" /\ CallScrapeAllPages)
    \/ ListPageOpens
    \/ ListPageRefused
    \/ \E rows \in BrowserPages : PageScraped(rows)
    \/ PageFails
    \/ PageHasNoTable
    \/ ListPageCloses
    \/ ListPageCloseFails

SpecBrowser == Init /\ [][NextBrowser]_vars

====
